---- MODULE Spec2Model ----
(***************************************************************************)
(* Game-tree engine of SIMDJ: tree construction (TreeBuilder), history     *)
(* enumeration (HistoryGenerator), probability assignment                  *)
(* (ProbabilityAssigner), expected utilities (UtilityCalculator) and the   *)
(* backward-induction search (EquilibriumFinder).                          *)
(*                                                                         *)
(* Numbers that are floats in the program (probabilities, utilities) are   *)
(* rationals <<n, d>> in lowest terms with d > 0.  The sums and quotients  *)
(* of ProbabilityAssigner are rounded to FloatBits significant bits (ties  *)
(* to even), as the float operations round to 53; other products and sums  *)
(* are exact.                                                              *)
(***************************************************************************)
EXTENDS Integers, Sequences, FiniteSets, TLC

\* ------------------------------------------------------------------ bounds
MaxPlayers == 2
MaxRounds == 3
MaxStrategies == 3
MaxHistories == 9
MaxProbOps == 2
MaxBuilds == 2
FloatBits == 6
RecursionLimit == 8

\* ------------------------------------------------------- program constants
max_scenarios == 30000
max_strategies == 30000
NumLetters == 52

\* --------------------------------------------------------------- rationals
RECURSIVE Gcd(_, _)
Gcd(a, b) == IF b = 0 THEN a ELSE Gcd(b, a % b)

Abs(x) == IF x < 0 THEN -x ELSE x

Rat(n, d) ==
    LET g == Gcd(Abs(n), Abs(d))
        s == IF d < 0 THEN -1 ELSE 1
    IN  <<(s * n) \div g, (s * d) \div g>>

\* The sums and comparisons divide by the gcd of the denominators first, so
\* that intermediate products stay small.
RatMul(a, b) == Rat(a[1] * b[1], a[2] * b[2])
RatAdd(a, b) ==
    LET g == Gcd(a[2], b[2])
    IN  Rat(a[1] * (b[2] \div g) + b[1] * (a[2] \div g), (a[2] \div g) * b[2])
RatNeg(a) == <<-a[1], a[2]>>
RatSub(a, b) == RatAdd(a, RatNeg(b))
RatDiv(a, b) == Rat(a[1] * b[2], a[2] * b[1])
RatLt(a, b) ==
    LET g == Gcd(a[2], b[2])
    IN  a[1] * (b[2] \div g) < b[1] * (a[2] \div g)
RatLeq(a, b) == ~RatLt(b, a)
RatAbs(a) == <<Abs(a[1]), a[2]>>
Zero == <<0, 1>>
One == <<1, 1>>

RECURSIVE Pow(_, _)
Pow(b, e) == IF e = 0 THEN 1 ELSE b * Pow(b, e - 1)

\* float rounding: the nearest value n * 2^e with 2^(FloatBits - 1) <= n <
\* 2^FloatBits, ties to the even n
RECURSIVE RoundPos(_, _)
RoundPos(n, d) ==
    IF n >= Pow(2, FloatBits) * d
    THEN RatMul(<<2, 1>>, RoundPos(n, 2 * d))
    ELSE IF n < Pow(2, FloatBits - 1) * d
    THEN RatMul(<<1, 2>>, RoundPos(2 * n, d))
    ELSE LET q == n \div d
             r == n % d
         IN  IF 2 * r > d \/ (2 * r = d /\ q % 2 = 1) THEN <<q + 1, 1>>
             ELSE <<q, 1>>

Round(x) ==
    IF x[1] = 0 THEN Zero
    ELSE IF x[1] < 0 THEN RatNeg(RoundPos(-x[1], x[2]))
    ELSE RoundPos(x[1], x[2])

\* a + b, a - b and a / b of two floats
FloatAdd(a, b) == Round(RatAdd(a, b))
FloatSub(a, b) == Round(RatSub(a, b))
FloatDiv(a, b) == Round(RatDiv(a, b))

\* sum(values): additions from the left, starting at 0
RECURSIVE FloatSum(_, _, _)
FloatSum(values, i, acc) ==
    IF i > Len(values) THEN acc
    ELSE FloatSum(values, i + 1, FloatAdd(acc, values[i]))

\* ------------------------------------------------------- string formatting
\* str(n) for n >= 0: the decimal digits, most significant first.
Digit(n) == <<"0", "1", "2", "3", "4", "5", "6", "7", "8", "9">>[n + 1]

RECURSIVE Str(_)
Str(n) == IF n < 10 THEN <<Digit(n)>> ELSE Append(Str(n \div 10), Digit(n % 10))

\* dict.setdefault(k, []).append(v)
DictAppend(d, k, v) ==
    IF k \in DOMAIN d THEN [d EXCEPT ![k] = Append(@, v)] ELSE d @@ (k :> <<v>>)

\* dict.get(k, default)
DictGet(d, k, default) == IF k \in DOMAIN d THEN d[k] ELSE default

EmptyDict == [x \in {} |-> <<>>]

\* sorted(ids): ascending order of a sequence of integers
SortIds(s) == SortSeq(s, LAMBDA a, b : a < b)

\* ------------------------------------------------------------- TreeBuilder
\* S ** E of Python: an int when E >= 0, a float when E < 0 (both as a
\* rational); 0 ** E with E < 0 raises ZeroDivisionError
PyPow(b, e) ==
    IF e >= 0 THEN <<Pow(b, e), 1>> ELSE RatDiv(One, <<Pow(b, -e), 1>>)

\* x // y of Python: the floor of the quotient
FloorDiv(x, y) ==
    LET q == RatDiv(x, <<y, 1>>)
    IN  q[1] \div q[2]

calculate_total_scenarios(rounds, strategies) ==
    IF strategies = 1 THEN 1
    ELSE FloorDiv(RatSub(PyPow(strategies, rounds), One), strategies - 1)

calculate_total_strategies(rounds, strategies) ==
    IF strategies = 1 THEN 1
    ELSE FloorDiv(RatSub(PyPow(strategies, rounds), PyPow(strategies, 2)),
                  strategies - 1)
         + 2 * strategies

\* strategies ** rounds: an int, or the rational of a float when rounds < 0
calculate_total_histories(rounds, strategies) ==
    IF rounds >= 0 THEN Pow(strategies, rounds) ELSE PyPow(strategies, rounds)

\* DomainValidator._calculate_game_metrics raises ValidationError iff the
\* power raises ZeroDivisionError
calculate_game_metrics_ok(rounds, strategies) == ~(strategies = 0 /\ rounds < 0)

\* DomainValidator._calculate_game_metrics
calculate_game_metrics(rounds, strategies) ==
    IF strategies = 1
    THEN [scenarios |-> 1, strategies |-> 1]
    ELSE [scenarios |-> FloorDiv(RatSub(PyPow(strategies, rounds), One),
                                 strategies - 1),
          strategies |-> FloorDiv(RatSub(PyPow(strategies, rounds),
                                         PyPow(strategies, 2)),
                                  strategies - 1)
                         + 2 * strategies]

\* DomainValidator.validate_game_complexity: TRUE iff nothing is raised
validate_game_complexity(rounds, strategies) ==
    /\ calculate_game_metrics_ok(rounds, strategies)
    /\ LET metrics == calculate_game_metrics(rounds, strategies)
       IN  ~(metrics.scenarios >= max_scenarios \/ metrics.strategies > max_strategies)

Scenario(id, depth, type, label) ==
    [scenario_id |-> id, depth |-> depth, scenario_type |-> type,
     label |-> label, children |-> <<>>, outgoing_actions |-> <<>>]

\* Scenarios are kept in a sequence in creation order: scenario_id i is at
\* index i + 1.
\* The innermost loop of create_scenarios, `for _ in range(strategies)` (no
\* iteration when strategies <= 0): its k-th iteration creates scenario st.scenario_id + k, labels it with the
\* k-th next Z or X number and appends it to the parent's children, to the
\* scenario list and to next_level.
ChildLoop(st, parent, depth, rounds, strategies) ==
    LET node_type == IF depth = rounds THEN "final" ELSE "normal"
        n == IF strategies > 0 THEN strategies ELSE 0
        label(k) == IF node_type = "final" THEN <<"Z">> \o Str(st.z_count + k)
                                           ELSE <<"X">> \o Str(st.x_count + k)
        created == [k \in 1..n |->
                      Scenario(st.scenario_id + k, depth, node_type, label(k))]
        ids == [k \in 1..n |-> st.scenario_id + k]
    IN  [scenario_id |-> st.scenario_id + n,
         x_count |-> IF node_type = "final" THEN st.x_count ELSE st.x_count + n,
         z_count |-> IF node_type = "final" THEN st.z_count + n ELSE st.z_count,
         scenarios |-> [st.scenarios EXCEPT ![parent + 1].children = @ \o ids]
                         \o created,
         next_level |-> st.next_level \o ids]

\* `for parent in level`
RECURSIVE ParentLoop(_, _, _, _, _, _)
ParentLoop(st, level, i, depth, rounds, strategies) ==
    IF i > Len(level) THEN st
    ELSE ParentLoop(ChildLoop(st, level[i], depth, rounds, strategies),
                    level, i + 1, depth, rounds, strategies)

\* DepthLoop with the loop bound one short, `range(1, rounds)`
RECURSIVE DepthLoop_StopEarly(_, _, _, _, _)
DepthLoop_StopEarly(st, level, depth, rounds, strategies) ==
    IF depth >= rounds THEN st.scenarios
    ELSE
      LET after == ParentLoop([st EXCEPT !.next_level = <<>>],
                              level, 1, depth, rounds, strategies)
      IN  DepthLoop_StopEarly(after, SortIds(after.next_level), depth + 1,
                              rounds, strategies)

\* `for depth in range(1, rounds + 1)`
RECURSIVE DepthLoop(_, _, _, _, _)
DepthLoop(st, level, depth, rounds, strategies) ==
    IF depth > rounds THEN st.scenarios
    ELSE
      LET after == ParentLoop([st EXCEPT !.next_level = <<>>],
                              level, 1, depth, rounds, strategies)
      IN  DepthLoop(after, SortIds(after.next_level), depth + 1, rounds, strategies)

create_scenarios(rounds, strategies) ==
    DepthLoop([scenario_id |-> 0, x_count |-> 0, z_count |-> 0,
               scenarios |-> <<Scenario(0, 0, "normal", <<"X", "0">>)>>,
               next_level |-> <<>>],
              <<0>>, 1, rounds, strategies)

Letters ==
    <<"a", "b", "c", "d", "e", "f", "g", "h", "i", "j", "k", "l", "m",
      "n", "o", "p", "q", "r", "s", "t", "u", "v", "w", "x", "y", "z",
      "A", "B", "C", "D", "E", "F", "G", "H", "I", "J", "K", "L", "M",
      "N", "O", "P", "Q", "R", "S", "T", "U", "V", "W", "X", "Y", "Z">>

\* _get_subtree_letter raises ValidationError iff index >= len(letters)
subtree_letter_ok(index) == index < Len(Letters)
get_subtree_letter(index) == Letters[index + 1]

\* add_edge without `origin.outgoing_actions.append(action)`
add_edge_NoOutgoing(acc, origin, dest, label) ==
    LET action_id == Len(acc.actions) + 1
        action == [action_id |-> action_id, destination_scenario |-> dest,
                   origin_scenario |-> origin, label |-> label]
    IN  [actions |-> Append(acc.actions, action),
         adjacency |-> DictAppend(acc.adjacency, origin, action_id),
         scenarios |-> acc.scenarios]

\* add_edge: the accumulator holds the action list, the adjacency dict and
\* the scenarios (whose outgoing_actions are appended to).
add_edge(acc, origin, dest, label) ==
    LET action_id == Len(acc.actions) + 1
        action == [action_id |-> action_id, destination_scenario |-> dest,
                   origin_scenario |-> origin, label |-> label]
    IN  [actions |-> Append(acc.actions, action),
         adjacency |-> DictAppend(acc.adjacency, origin, action_id),
         scenarios |-> [acc.scenarios EXCEPT
                          ![origin + 1].outgoing_actions = Append(@, action_id)]]

RECURSIVE build_subtree_actions(_, _, _, _)
RECURSIVE SubtreeChildren(_, _, _, _, _, _)

\* returns [counter, acc]
build_subtree_actions(node, letter, counter, acc) ==
    IF acc.scenarios[node + 1].children = <<>>
    THEN [counter |-> counter, acc |-> acc]
    ELSE SubtreeChildren(node, letter, counter, acc,
                         SortIds(acc.scenarios[node + 1].children), 1)

\* SubtreeChildren that drops the counter returned by the recursive call
RECURSIVE SubtreeChildren_StaleCounter(_, _, _, _, _, _)
SubtreeChildren_StaleCounter(node, letter, counter, acc, children_sorted, i) ==
    IF i > Len(children_sorted) THEN [counter |-> counter, acc |-> acc]
    ELSE
      LET child == children_sorted[i]
          acc1 == add_edge(acc, node, child, <<letter>> \o Str(counter))
          sub == build_subtree_actions(child, letter, counter + 1, acc1)
      IN  SubtreeChildren_StaleCounter(node, letter, counter + 1, sub.acc,
                                       children_sorted, i + 1)

\* `for child in children_sorted`
SubtreeChildren(node, letter, counter, acc, children_sorted, i) ==
    IF i > Len(children_sorted) THEN [counter |-> counter, acc |-> acc]
    ELSE
      LET child == children_sorted[i]
          acc1 == add_edge(acc, node, child, <<letter>> \o Str(counter))
          sub == build_subtree_actions(child, letter, counter + 1, acc1)
      IN  SubtreeChildren(node, letter, sub.counter, sub.acc, children_sorted, i + 1)

\* `for subtree_index, child in enumerate(root_children)`
RECURSIVE RootLoop(_, _, _)
RootLoop(acc, root_children, i) ==
    IF i > Len(root_children) THEN acc
    ELSE
      LET letter == get_subtree_letter(i - 1)
          acc1 == add_edge(acc, 0, root_children[i], <<letter>> \o Str(1))
          sub == build_subtree_actions(root_children[i], letter, 2, acc1)
      IN  RootLoop(sub.acc, root_children, i + 1)

\* create_actions raises iff some root subtree has no letter
create_actions_ok(scenarios) ==
    \A i \in 1..Len(scenarios[1].children) : subtree_letter_ok(i - 1)

create_actions(scenarios) ==
    RootLoop([actions |-> <<>>, adjacency |-> EmptyDict, scenarios |-> scenarios],
             SortIds(scenarios[1].children), 1)

\* ------------------------------------------------------------------- state
VARIABLES
    game,            \* TreeBuilder.game: the Game of the last build, or NoGame
    probability,     \* Action.probability of the game's actions, by action_id
    probabilities,   \* ProbabilityAssigner.probabilities: action_id -> value
    histories,       \* HistoryGenerator.histories
    payoffs,         \* the Payoff objects handed to the calculator / finder
    utility_matrix,  \* UtilityCalculator.utility_matrix
    spe_profiles,    \* the value returned by find_spe_profiles
    result,          \* outcome of the last operation
    prob_ops,        \* number of probability operations so far
    session          \* SessionManager: the active game

vars == <<game, probability, probabilities, histories, payoffs,
          utility_matrix, spe_profiles, result, prob_ops, session>>

\* `probability` has one entry per Game object ever created by build_tree (a
\* rebuilt tree has new Action objects with the same action_ids); `obj` names
\* the Game object a record belongs to.
NoScenario == -1

\* build_tree up to (not including) the creation of scenarios and actions
NewGame(obj, players, rounds) ==
    [game_id |-> 1,
     obj |-> obj,
     state |-> "CREATED",
     players |-> [i \in 1..players |-> i],
     rounds |-> [i \in 1..rounds |-> [round_number |-> i, active_player |-> 0]],
     scenarios |-> <<>>,
     actions |-> <<>>,
     root |-> NoScenario,
     adjacency |-> EmptyDict,
     total_scenarios |-> 0,
     total_actions |-> 0,
     total_histories |-> 0,
     max_depth |-> 0,
     num_rounds |-> 0,
     num_strategies |-> 0,
     histories |-> <<>>,
     payoffs |-> <<>>]

\* TreeBuilder.game before the first build_tree (get_tree() has no Game)
NoGame == [NewGame(0, 0, 0) EXCEPT !.game_id = 0]

\* SessionManager after initialize_session: active_game is None
NoSession ==
    [num_players |-> 0,
     num_rounds |-> 0,
     num_strategies |-> 0,
     total_histories |-> 0,
     player_order |-> <<>>,
     history_list |-> <<>>,
     utility_matrix |-> <<>>,
     payoffs |-> <<>>,
     probabilities |-> <<>>,
     equilibria |-> <<>>,
     equilibrium_profiles |-> <<>>,
     temp_histories |-> <<>>,
     active_game |-> NoGame]

\* the Game returned by a successful build_tree
BuiltGame(obj, players, rounds, strategies) ==
    LET created == create_scenarios(rounds, strategies)
        built == create_actions(created)
    IN  [NewGame(obj, players, rounds) EXCEPT
           !.scenarios = built.scenarios,
           !.actions = built.actions,
           !.root = built.scenarios[1].scenario_id,
           !.adjacency = built.adjacency,
           !.total_scenarios = Len(built.scenarios),
           !.total_actions = Len(built.actions),
           !.total_histories = calculate_total_histories(rounds, strategies),
           !.max_depth = rounds,
           !.num_rounds = rounds,
           !.num_strategies = strategies]

\* --------------------------------------------------------- HistoryGenerator
\* History.calculate_probability: reduce(mul, probabilities, 1.0)
RECURSIVE Product(_, _, _)
Product(prob, actions, i) ==
    IF i > Len(actions) THEN One
    ELSE RatMul(prob[actions[i]], Product(prob, actions, i + 1))

\* reduce(mul, probabilities, 0.0): the wrong initial value
calculate_probability_ZeroStart(prob, actions) ==
    IF actions = <<>> THEN Zero ELSE RatMul(Zero, Product(prob, actions, 1))

calculate_probability(prob, actions) ==
    IF actions = <<>> THEN Zero ELSE Product(prob, actions, 1)

History(obj, history_id, actions, prob) ==
    [history_id |-> history_id, obj |-> obj, actions |-> actions,
     total_probability |-> calculate_probability(prob, actions)]

RECURSIVE dfs(_, _, _, _)
RECURSIVE DfsLoop(_, _, _, _, _, _)

\* _dfs; st = [histories, path_buffer, cycle_guard, raised].  A call nested
\* RecursionLimit deep raises RecursionError, which _dfs turns into a
\* HistoryGenerationError that every enclosing call re-raises.
dfs(current, tree, prob, st) ==
    LET outgoing == DictGet(tree.adjacency, current, <<>>)
    IN  IF Len(st.path_buffer) >= RecursionLimit
        THEN [st EXCEPT !.raised = TRUE]
        ELSE IF outgoing = <<>>
        THEN [st EXCEPT !.histories =
                Append(@, History(tree.obj, Len(st.histories) + 1,
                                  st.path_buffer, prob))]
        ELSE DfsLoop(current, tree, prob, st, outgoing, 1)

\* `for action in outgoing`
DfsLoop(current, tree, prob, st, outgoing, i) ==
    IF i > Len(outgoing) THEN st
    ELSE
      LET action == tree.actions[outgoing[i]]
          destination == action.destination_scenario
          new_path_ids == Append(st.path_buffer, action.action_id)
          guard_key == <<destination, new_path_ids>>
      IN  IF destination = NoScenario \/ guard_key \in st.cycle_guard
          THEN DfsLoop(current, tree, prob, st, outgoing, i + 1)
          ELSE
            LET down == dfs(destination, tree, prob,
                            [st EXCEPT !.cycle_guard = @ \cup {guard_key},
                                       !.path_buffer = new_path_ids])
            IN  IF down.raised THEN down
                ELSE DfsLoop(current, tree,  prob,
                             [down EXCEPT !.path_buffer = st.path_buffer],
                             outgoing, i + 1)

\* the sort with the order reversed
SortAdjacency_Descending(adjacency) ==
    [k \in DOMAIN adjacency |-> SortSeq(adjacency[k], LAMBDA a, b : a > b)]

\* adjacency[scenario_id].sort(key=lambda a: a.action_id)
SortAdjacency(adjacency) == [k \in DOMAIN adjacency |-> SortIds(adjacency[k])]

\* `for action in actions` of _rebuild_adjacency_from_actions
RECURSIVE RebuildLoop(_, _, _)
RebuildLoop(actions, i, adjacency) ==
    IF i > Len(actions) THEN adjacency
    ELSE IF actions[i].origin_scenario = NoScenario
    THEN RebuildLoop(actions, i + 1, adjacency)
    ELSE RebuildLoop(actions, i + 1,
                     DictAppend(adjacency, actions[i].origin_scenario,
                                actions[i].action_id))

rebuild_adjacency_from_actions(actions) == RebuildLoop(actions, 1, EmptyDict)

\* the adjacency generate_histories walks: the tree's, or the one rebuilt
\* from the actions when the tree's is empty, with every list sorted
walk_adjacency(tree) ==
    SortAdjacency(IF DOMAIN tree.adjacency = {}
                  THEN rebuild_adjacency_from_actions(tree.actions)
                  ELSE tree.adjacency)

\* validate_tree_structure and the checks of generate_histories that raise
\* before the traversal
generate_histories_ok(tree) ==
    /\ tree # NoGame
    /\ tree.scenarios # <<>>
    /\ tree.root # NoScenario
    /\ tree.actions # <<>>

\* the traversal of generate_histories: _dfs from the root
walk_histories(tree, prob) ==
    dfs(tree.root, [tree EXCEPT !.adjacency = walk_adjacency(tree)], prob,
        [histories |-> <<>>, path_buffer |-> <<>>, cycle_guard |-> {},
         raised |-> FALSE])

\* the list generate_histories returns: _dfs, then _calculate_all_probabilities
generate_histories(tree, prob) ==
    LET walked == walk_histories(tree, prob)
    IN  [h \in 1..Len(walked.histories) |->
           [walked.histories[h] EXCEPT
              !.total_probability =
                calculate_probability(prob, walked.histories[h].actions)]]

\* ------------------------------------------------------ ProbabilityAssigner
RECURSIVE Sum(_, _)
Sum(values, i) == IF i > Len(values) THEN Zero
                  ELSE RatAdd(values[i], Sum(values, i + 1))

\* DomainValidator.validate_probability_assignments: TRUE iff it does not raise
validate_probability_assignments(actions, values) ==
    /\ actions # <<>>
    /\ values # <<>>
    /\ Len(actions) = Len(values)
    /\ \A i \in 1..Len(values) : ~(RatLt(values[i], Zero) \/ RatLt(One, values[i]))

\* self.probabilities.get(action.action_id, action.probability)
get_probability(cache, prob, action_id) == DictGet(cache, action_id, prob[action_id])

\* the pair (self.probabilities, Action.probability) after assign_probabilities
assign_probabilities(cache, prob, actions, values) ==
    LET ids == {actions[i] : i \in 1..Len(actions)}
        valueOf(a) == values[CHOOSE i \in 1..Len(actions) :
                               actions[i] = a /\ \A j \in (i + 1)..Len(actions) : actions[j] # a]
    IN  [probabilities |-> [a \in DOMAIN cache \cup ids |->
                              IF a \in ids THEN valueOf(a) ELSE cache[a]],
         probability |-> [a \in 1..Len(prob) |->
                              IF a \in ids THEN valueOf(a) ELSE prob[a]]]

\* self.tolerance: the float 0.001
tolerance == Round(<<1, 1000>>)

\* the number of actions in place of the sum of their probabilities
normalize_total_Count(cache, prob, actions) == <<Len(actions), 1>>

\* sum(self.probabilities.get(action.action_id, action.probability) ...)
normalize_total(cache, prob, actions) ==
    FloatSum([i \in 1..Len(actions) |-> get_probability(cache, prob, actions[i])],
             1, Zero)

\* validate_probabilities(scenario): "True" when it returns True, "raise"
\* when it raises ProbabilityAssignmentError
validate_probabilities(cache, prob, outgoing) ==
    IF outgoing = <<>> THEN "True"
    ELSE LET total == normalize_total(cache, prob, outgoing)
             diff == RatAbs(FloatSub(One, total))
             is_valid == RatLeq(diff, tolerance)
         IN  IF ~is_valid THEN "raise" ELSE "True"

\* the pair (self.probabilities, Action.probability) after normalize_probabilities
normalize_probabilities(cache, prob, actions) ==
    LET total == normalize_total(cache, prob, actions)
        ids == {actions[i] : i \in 1..Len(actions)}
        new_probability(a) == FloatDiv(get_probability(cache, prob, a), total)
    IN  [probabilities |-> [a \in DOMAIN cache \cup ids |->
                              IF a \in ids THEN new_probability(a) ELSE cache[a]],
         probability |-> [a \in 1..Len(prob) |->
                              IF a \in ids THEN new_probability(a) ELSE prob[a]]]

\* ------------------------------------------------------------------ Payoff
\* A Payoff refers to its History by history_id; the History object is the
\* one with that id in the list the payoff was built for.
\* A Payoff built by the controller carries the History object it points to.
PayoffHistory(hs, pf) ==
    IF "history_object" \in DOMAIN pf THEN pf.history_object
    ELSE hs[CHOOSE h \in 1..Len(hs) : hs[h].history_id = pf.history]

\* Payoff.__post_init__: expected_utility is computed at construction when
\* the history is non-empty and has a positive total_probability
Payoff(payoff_id, player, history, value) ==
    [payoff_id |-> payoff_id, player |-> player, history |-> history.history_id,
     value |-> value,
     expected_utility |->
        IF history.actions # <<>> /\ RatLt(Zero, history.total_probability)
        THEN RatMul(value, history.total_probability) ELSE Zero]

\* the payoff list of a payoff matrix (one row per history, one column per
\* player): history-major, payoff_id counting from 1
PayoffList(payoffs_matrix, hs, players) ==
    LET n == Len(players)
    IN  [k \in 1..(Len(payoffs_matrix) * n) |->
           LET history_idx == (k - 1) \div n
               player_idx == (k - 1) % n
           IN  Payoff(k, players[player_idx + 1], hs[history_idx + 1],
                      payoffs_matrix[history_idx + 1][player_idx + 1])]

\* -------------------------------------------------------- UtilityCalculator
\* DomainValidator.validate_utility_calculation_data: TRUE iff it does not
\* raise.  `not payoff.history` is len(history.actions) = 0.
validate_utility_calculation_data(hs, pfs) ==
    /\ hs # <<>>
    /\ pfs # <<>>
    /\ \A i \in 1..Len(pfs) :
         /\ \E h \in 1..Len(hs) : hs[h].history_id = pfs[i].history
         /\ PayoffHistory(hs, pfs[i]).actions # <<>>
         /\ pfs[i].player # 0

\* UtilityCalculator.validate_data_consistency: TRUE iff it does not raise
validate_data_consistency(hs, pfs) ==
    /\ validate_utility_calculation_data(hs, pfs)
    /\ \A i \in 1..Len(pfs) :
         pfs[i].history \in {hs[h].history_id : h \in 1..Len(hs)}

\* sorted(players_by_id.values(), key=player_id): the distinct players of the
\* payoffs in ascending id
RECURSIVE SortedSet(_)
SortedSet(S) ==
    IF S = {} THEN <<>>
    ELSE LET m == CHOOSE x \in S : \A y \in S : x <= y
         IN  <<m>> \o SortedSet(S \ {m})

payoff_players(pfs) == SortedSet({pfs[i].player : i \in 1..Len(pfs)})

\* payoff_map[(player_id, history_id)] = value, a later payoff overwriting an
\* earlier one with the same key
payoff_map(pfs) ==
    LET keys == {<<pfs[i].player, pfs[i].history>> : i \in 1..Len(pfs)}
        last(k) == CHOOSE i \in 1..Len(pfs) :
                     /\ <<pfs[i].player, pfs[i].history>> = k
                     /\ \A j \in (i + 1)..Len(pfs) :
                          <<pfs[j].player, pfs[j].history>> # k
    IN  [k \in keys |-> pfs[last(k)].value]

\* utility_value = payoff_value, the weight of the history left out
utility_value_Unweighted(payoff_value, prob) == payoff_value

\* utility_value = payoff_value * probability
utility_value(payoff_value, prob) == RatMul(payoff_value, prob)

\* the matrix calculate_utilities returns
calculate_utilities(hs, pfs) ==
    LET players == payoff_players(pfs)
        map == payoff_map(pfs)
    IN  [history_index \in 1..Len(hs) |->
           [player_index \in 1..Len(players) |->
              utility_value(DictGet(map, <<players[player_index],
                                           hs[history_index].history_id>>, Zero),
                            hs[history_index].total_probability)]]

\* the payoffs after calculate_utilities: payoff.expected_utility =
\* payoff.value * payoff.history.total_probability
update_expected_utilities(hs, pfs) ==
    [i \in 1..Len(pfs) |->
       [pfs[i] EXCEPT !.expected_utility =
          RatMul(pfs[i].value, PayoffHistory(hs, pfs[i]).total_probability)]]

\* -------------------------------------------------------- EquilibriumFinder
\* abs(utility - max_utility) < 1e-6
Tolerance == <<1, 1000000>>

Strategy(strategy_id, from_scenario, action) ==
    [strategy_id |-> strategy_id, from_scenario |-> from_scenario,
     action |-> action]

\* DomainValidator.validate_equilibrium_finding_data: TRUE iff it does not raise
validate_equilibrium_finding_data(g, hs, pfs, players) ==
    /\ g.game_id # 0
    /\ validate_utility_calculation_data(hs, pfs)
    /\ players # <<>>
    /\ g.scenarios # <<>>
    /\ g.actions # <<>>

\* _build_adjacency: origin scenario_id -> action ids, in game.actions order
RECURSIVE BuildAdjacencyLoop(_, _, _)
BuildAdjacencyLoop(actions, i, adjacency) ==
    IF i > Len(actions) THEN adjacency
    ELSE BuildAdjacencyLoop(actions, i + 1,
           IF actions[i].origin_scenario = NoScenario THEN adjacency
           ELSE DictAppend(adjacency, actions[i].origin_scenario,
                           actions[i].action_id))

build_adjacency(g) == BuildAdjacencyLoop(g.actions, 1, EmptyDict)

\* _map_actions_to_histories: action_id -> history ids, in list order
RECURSIVE MapActionsLoop(_, _, _, _)
MapActionsLoop(hs, h, i, acc) ==
    IF h > Len(hs) THEN acc
    ELSE IF i > Len(hs[h].actions) THEN MapActionsLoop(hs, h + 1, 1, acc)
    ELSE MapActionsLoop(hs, h, i + 1,
                        DictAppend(acc, hs[h].actions[i], hs[h].history_id))

map_actions_to_histories(hs) == MapActionsLoop(hs, 1, 1, EmptyDict)

\* `for payoff in payoffs: history_utilities[history_id][player_id] = value`
RECURSIVE HistoryUtilitiesLoop(_, _, _)
HistoryUtilitiesLoop(pfs, i, hu) ==
    IF i > Len(pfs) THEN hu
    ELSE HistoryUtilitiesLoop(pfs, i + 1,
           [hu EXCEPT ![pfs[i].history] = (pfs[i].player :> pfs[i].value) @@ @])

\* the assignment above raises KeyError for a history id not in histories
build_history_utilities_ok(hs, pfs) ==
    \A i \in 1..Len(pfs) : pfs[i].history \in {hs[h].history_id : h \in 1..Len(hs)}

\* _build_history_utilities: history_id -> player_id -> payoff.value
build_history_utilities(hs, pfs, players) ==
    HistoryUtilitiesLoop(pfs, 1,
        [id \in {hs[h].history_id : h \in 1..Len(hs)} |->
           [pl \in {players[i] : i \in 1..Len(players)} |-> Zero]])

\* _calculate_continuation_utility
calculate_continuation_utility(action_id, player, action_to_histories, history_utilities) ==
    LET through == DictGet(action_to_histories, action_id, <<>>)
        count == Len(through)
        total_utility ==
            Sum([k \in 1..count |->
                   DictGet(history_utilities[through[k]], player, Zero)], 1)
    IN  IF count > 0 THEN RatDiv(total_utility, <<count, 1>>) ELSE Zero

\* the active players of the rounds ignored
get_active_player_for_scenario_Cyclic(scenario, g, players) ==
    IF players # <<>> THEN players[(scenario.depth % Len(players)) + 1] ELSE 0

\* _get_active_player_for_scenario; 0 is None
get_active_player_for_scenario(scenario, g, players) ==
    LET assigned == {i \in 1..Len(g.rounds) :
                       /\ g.rounds[i].round_number = scenario.depth + 1
                       /\ g.rounds[i].active_player # 0}
    IN  IF assigned # {}
        THEN g.rounds[CHOOSE i \in assigned : \A j \in assigned : i <= j].active_player
        ELSE IF players # <<>>
        THEN players[(scenario.depth % Len(players)) + 1]
        ELSE 0

\* `for action in outgoing_actions` of _find_all_spe_profiles;
\* acc = [next_strategy_id, action_results]
RECURSIVE SpeActionLoop(_, _, _, _, _, _, _)
SpeActionLoop(ctx, best_continuations, scenario, active_player, outgoing, i, acc) ==
    IF i > Len(outgoing) THEN acc
    ELSE
      LET action == ctx.game.actions[outgoing[i]]
          continuation_utility ==
              calculate_continuation_utility(action.action_id, active_player,
                  ctx.action_to_histories, ctx.history_utilities)
          dest_id == action.destination_scenario
          continuation_strategies ==
              IF dest_id = NoScenario THEN <<>>
              ELSE IF dest_id \in DOMAIN best_continuations
              THEN [k \in 1..Len(best_continuations[dest_id]) |->
                      <<Strategy(acc.next_strategy_id + k - 1,
                                 scenario.scenario_id, action.action_id)>>
                      \o best_continuations[dest_id][k].strategies]
              ELSE <<<<Strategy(acc.next_strategy_id, scenario.scenario_id,
                                action.action_id)>>>>
      IN  SpeActionLoop(ctx, best_continuations, scenario, active_player,
                        outgoing, i + 1,
                        [next_strategy_id |->
                            acc.next_strategy_id + Len(continuation_strategies),
                         action_results |->
                            Append(acc.action_results,
                                   [action |-> action.action_id,
                                    utility |-> continuation_utility,
                                    continuations |-> continuation_strategies])])

\* max_utility taken from the first action instead of the maximum
max_utility_First(action_results) == action_results[1].utility

\* max(util for _, util, _ in action_results)
max_utility(action_results) ==
    LET utils == {action_results[k].utility : k \in 1..Len(action_results)}
    IN  CHOOSE u \in utils : \A v \in utils : RatLeq(v, u)

\* every action kept, whatever its utility
best_actions_All(action_results, max) == action_results

\* the actions within the tolerance of the maximum
best_actions(action_results, max) ==
    SelectSeq(action_results,
              LAMBDA r : RatLt(RatAbs(RatSub(r.utility, max)), Tolerance))

\* scenario_continuations built from the first best action only
RECURSIVE scenario_continuations_FirstOnly(_, _, _)
scenario_continuations_FirstOnly(best, max, i) ==
    IF i > 1 \/ i > Len(best) THEN <<>>
    ELSE [k \in 1..Len(best[i].continuations) |->
            [action |-> best[i].action, utility |-> max,
             strategies |-> best[i].continuations[k]]]

\* `for action, continuations in best_actions: for continuation in continuations`
RECURSIVE scenario_continuations(_, _, _)
scenario_continuations(best, max, i) ==
    IF i > Len(best) THEN <<>>
    ELSE [k \in 1..Len(best[i].continuations) |->
            [action |-> best[i].action, utility |-> max,
             strategies |-> best[i].continuations[k]]]
         \o scenario_continuations(best, max, i + 1)

\* `for scenario in scenarios_by_depth[depth]`;
\* st = [best_continuations, next_strategy_id]
RECURSIVE SpeScenarioLoop(_, _, _, _)
SpeScenarioLoop(ctx, level, i, st) ==
    IF i > Len(level) THEN st
    ELSE
      LET scenario == level[i]
          outgoing == DictGet(ctx.adjacency, scenario.scenario_id, <<>>)
          active_player == get_active_player_for_scenario(scenario, ctx.game,
                                                          ctx.players)
          done == SpeActionLoop(ctx, st.best_continuations, scenario,
                                active_player, outgoing, 1,
                                [next_strategy_id |-> st.next_strategy_id,
                                 action_results |-> <<>>])
          max == max_utility(done.action_results)
      IN  IF \/ scenario.scenario_type = "final"
             \/ outgoing = <<>>
             \/ active_player = 0
          THEN SpeScenarioLoop(ctx, level, i + 1, st)
          ELSE SpeScenarioLoop(ctx, level, i + 1,
                 [best_continuations |->
                    (scenario.scenario_id :>
                       scenario_continuations(
                           best_actions(done.action_results, max), max, 1))
                    @@ st.best_continuations,
                  next_strategy_id |-> done.next_strategy_id])

\* `for depth in range(max_depth, -1, -1)`
RECURSIVE SpeDepthLoop(_, _, _)
SpeDepthLoop(ctx, depth, st) ==
    IF depth < 0 THEN st
    ELSE SpeDepthLoop(ctx, depth - 1,
           SpeScenarioLoop(ctx,
               SelectSeq(ctx.game.scenarios, LAMBDA sc : sc.depth = depth),
               1, st))

\* _find_all_spe_profiles: the strategy lists recorded at the root
find_all_spe_profiles(g, adjacency, action_to_histories, history_utilities, players) ==
    LET ctx == [game |-> g, adjacency |-> adjacency,
                action_to_histories |-> action_to_histories,
                history_utilities |-> history_utilities, players |-> players]
        depths == {g.scenarios[k].depth : k \in 1..Len(g.scenarios)}
        max_depth == IF depths = {} THEN 0
                     ELSE CHOOSE d \in depths : \A e \in depths : e <= d
        final == SpeDepthLoop(ctx, max_depth,
                              [best_continuations |-> EmptyDict,
                               next_strategy_id |-> 1])
        root_scenarios == SelectSeq(g.scenarios, LAMBDA sc : sc.depth = 0)
    IN  IF root_scenarios = <<>> THEN <<>>
        ELSE IF root_scenarios[1].scenario_id \in DOMAIN final.best_continuations
        THEN LET recorded == final.best_continuations[root_scenarios[1].scenario_id]
             IN  [k \in 1..Len(recorded) |-> recorded[k].strategies]
        ELSE <<>>

\* index of the first element of seq equal to x, 0 if there is none
IndexOf(seq, x) ==
    IF \E k \in 1..Len(seq) : seq[k] = x
    THEN CHOOSE k \in 1..Len(seq) : seq[k] = x /\ \A j \in 1..(k - 1) : seq[j] # x
    ELSE 0

\* `for payoff in payoffs: if payoff.history.history_id == history.history_id`
RECURSIVE StepPayoffLoop(_, _, _, _)
StepPayoffLoop(pfs, history_id, i, res) ==
    IF i > Len(pfs) THEN res
    ELSE StepPayoffLoop(pfs, history_id, i + 1,
           IF pfs[i].history = history_id
           THEN (pfs[i].player :> pfs[i].value) @@ res ELSE res)

\* _get_payoffs_for_scenario_action: player_id -> value.  The payoffs are
\* those of the first history in which the action is not the first action
\* and follows an action into the scenario.
get_payoffs_for_scenario_action(scenario_id, action_id, g, hs, pfs, players) ==
    LET zero == [pl \in {players[i] : i \in 1..Len(players)} |-> Zero]
        hit(h) == /\ IndexOf(hs[h].actions, action_id) > 1
                  /\ g.actions[hs[h].actions[IndexOf(hs[h].actions, action_id) - 1]]
                       .destination_scenario = scenario_id
        hits == {h \in 1..Len(hs) : hit(h)}
    IN  IF hits = {} THEN zero
        ELSE StepPayoffLoop(pfs,
                 hs[CHOOSE h \in hits : \A k \in hits : h <= k].history_id,
                 1, zero)

\* sorted(strategies, key=lambda s: s.from_scenario.depth), a stable sort
sort_by_depth(g, strategies) ==
    SortSeq(strategies,
            LAMBDA a, b : g.scenarios[a.from_scenario + 1].depth
                            < g.scenarios[b.from_scenario + 1].depth)

\* _build_full_history: the parts joined by " -> "
RECURSIVE build_full_history(_, _, _)
build_full_history(g, strategies_sorted, i) ==
    IF i > Len(strategies_sorted) THEN <<>>
    ELSE
      LET strategy == strategies_sorted[i]
          action == g.actions[strategy.action]
          dest == action.destination_scenario
      IN  <<g.scenarios[strategy.from_scenario + 1].label, action.label>>
          \o (IF dest # NoScenario /\ g.scenarios[dest + 1].scenario_type = "final"
              THEN <<g.scenarios[dest + 1].label>> ELSE <<>>)
          \o build_full_history(g, strategies_sorted, i + 1)

\* _calculate_utility_vector
calculate_utility_vector(steps, players) ==
    IF steps = <<>> THEN [i \in 1..Len(players) |-> Zero]
    ELSE [i \in 1..Len(players) |->
            DictGet(steps[Len(steps)].payoffs, players[i], Zero)]

\* _build_equilibrium_profile.  Every strategy has a positive id and an
\* active player (players is not empty), so there is one step per strategy.
build_equilibrium_profile(profile_id, strategies, g, players, hs, pfs) ==
    LET strategies_sorted == sort_by_depth(g, strategies)
        steps == [i \in 1..Len(strategies_sorted) |->
                    LET strategy == strategies_sorted[i]
                        from == g.scenarios[strategy.from_scenario + 1]
                        action == g.actions[strategy.action]
                    IN  [round_num |-> from.depth + 1,
                         player |-> get_active_player_for_scenario(from, g, players),
                         scenario |-> from.label,
                         action |-> action.label,
                         destination |->
                            IF action.destination_scenario = NoScenario
                            THEN <<"Terminal">>
                            ELSE g.scenarios[action.destination_scenario + 1].label,
                         payoffs |-> get_payoffs_for_scenario_action(
                                         from.scenario_id, action.action_id,
                                         g, hs, pfs, players)]]
    IN  [profile_id |-> profile_id,
         strategies |-> strategies,
         steps |-> steps,
         full_history |-> build_full_history(g, strategies_sorted, 1),
         final_payments |-> steps[Len(steps)].payoffs,
         utility_vector |-> calculate_utility_vector(steps, players)]

\* find_spe_profiles raises iff the validation fails, a payoff names an
\* unknown history, or a Strategy is built for an action that is not among
\* its scenario's outgoing_actions
find_spe_profiles_ok(g, hs, pfs, players) ==
    /\ validate_equilibrium_finding_data(g, hs, pfs, players)
    /\ build_history_utilities_ok(hs, pfs)
    /\ \A a \in 1..Len(g.actions) :
         g.actions[a].origin_scenario # NoScenario
           => \E k \in 1..Len(g.scenarios[g.actions[a].origin_scenario + 1]
                                .outgoing_actions) :
                g.scenarios[g.actions[a].origin_scenario + 1].outgoing_actions[k]
                  = g.actions[a].action_id

\* EquilibriumFinder.equilibrium_profiles after find_spe_profiles
find_spe_profiles(g, hs, pfs, players) ==
    LET spe == find_all_spe_profiles(g, build_adjacency(g),
                   map_actions_to_histories(hs),
                   build_history_utilities(hs, pfs, players), players)
    IN  [i \in 1..Len(spe) |->
           build_equilibrium_profile(i, spe[i], g, players, hs, pfs)]

\* ------------------------------------------------------------------ inputs
\* the smallest number of rounds the complexity guard rejects with 2 strategies
RejectedRounds == CHOOSE r \in 1..20 :
    /\ ~validate_game_complexity(r, 2)
    /\ \A q \in 1..(r - 1) : validate_game_complexity(q, 2)

TreeInputs ==
    {c \in (1..MaxRounds) \X (1..MaxStrategies) : Pow(c[2], c[1]) <= MaxHistories}
    \cup {<<1, NumLetters + 1>>, <<RejectedRounds, 2>>}

Half == <<1, 2>>

\* value vectors for n actions: a point distribution, a two-point
\* distribution, a vector that does not sum to 1, one vector too short and
\* one with a value out of range
AssignInputs(n) ==
    {[i \in 1..n |-> IF i = 1 THEN One ELSE Zero],
     [i \in 1..n |-> IF i <= 2 THEN Half ELSE Zero],
     [i \in 1..n |-> IF i = 1 THEN Half ELSE One],
     [i \in 1..(n - 1) |-> One],
     [i \in 1..n |-> IF i = n THEN <<3, 2>> ELSE Zero]}

DecisionScenarios(g) ==
    {i \in 1..Len(g.scenarios) : g.scenarios[i].outgoing_actions # <<>>}

\* ----------------------------------------------------------------- actions
Init ==
    /\ game = NoGame
    /\ probability = <<>>
    /\ probabilities = EmptyDict
    /\ histories = <<>>
    /\ payoffs = <<>>
    /\ utility_matrix = <<>>
    /\ spe_profiles = <<>>
    /\ result = [op |-> "init", ok |-> TRUE]
    /\ prob_ops = 0
    /\ session = NoSession

\* TreeBuilder.build_tree(players, rounds, strategies).  A rebuild is explored
\* only before the first probability operation, and MaxBuilds Game objects
\* are created at most.
BuildTree(players, rounds, strategies) ==
    /\ Len(probability) < MaxBuilds
    /\ prob_ops = 0
    /\ IF ~validate_game_complexity(rounds, strategies)
       THEN /\ result' = [op |-> "build_tree", ok |-> FALSE,
                          players |-> players, rounds |-> rounds,
                          strategies |-> strategies]
            /\ UNCHANGED <<game, probability>>
       ELSE IF ~create_actions_ok(create_scenarios(rounds, strategies))
       THEN /\ game' = NewGame(Len(probability) + 1, players, rounds)
            /\ probability' = Append(probability, <<>>)
            /\ result' = [op |-> "build_tree", ok |-> FALSE,
                          players |-> players, rounds |-> rounds,
                          strategies |-> strategies]
       ELSE /\ game' = BuiltGame(Len(probability) + 1, players, rounds, strategies)
            /\ probability' = Append(probability,
                                     [a \in 1..Len(game'.actions) |-> Zero])
            /\ result' = [op |-> "build_tree", ok |-> TRUE,
                          players |-> players, rounds |-> rounds,
                          strategies |-> strategies]
    /\ UNCHANGED <<probabilities, histories, payoffs, utility_matrix,
                   spe_profiles, prob_ops, session>>

\* HistoryGenerator.generate_histories(game).  A failure before the traversal
\* leaves the generator's list empty; a failure inside it leaves the histories
\* emitted so far.
GenerateHistories ==
    /\ IF ~generate_histories_ok(game)
       THEN /\ histories' = <<>>
            /\ game' = game
            /\ result' = [op |-> "generate_histories", ok |-> FALSE]
       ELSE IF walk_histories(game, probability[game.obj]).raised
       THEN /\ histories' = walk_histories(game, probability[game.obj]).histories
            /\ game' = [game EXCEPT !.adjacency = SortAdjacency(@)]
            /\ result' = [op |-> "generate_histories", ok |-> FALSE]
       ELSE /\ histories' = generate_histories(game, probability[game.obj])
            /\ game' = [game EXCEPT !.adjacency = SortAdjacency(@)]
            /\ result' = [op |-> "generate_histories", ok |-> TRUE]
    /\ UNCHANGED <<probability, probabilities, payoffs, utility_matrix,
                   spe_profiles, prob_ops, session>>

\* ProbabilityAssigner.assign_probabilities(scenario.outgoing_actions, values)
AssignProbabilities(s, values) ==
    /\ prob_ops < MaxProbOps
    /\ prob_ops' = prob_ops + 1
    /\ LET actions == game.scenarios[s].outgoing_actions
       IN  IF validate_probability_assignments(actions, values)
           THEN LET new == assign_probabilities(probabilities,
                                                probability[game.obj], actions, values)
                IN  /\ probabilities' = new.probabilities
                    /\ probability' = [probability EXCEPT ![game.obj] = new.probability]
                    /\ result' = [op |-> "assign_probabilities", ok |-> TRUE]
           ELSE /\ UNCHANGED <<probabilities, probability>>
                /\ result' = [op |-> "assign_probabilities", ok |-> FALSE]
    /\ UNCHANGED <<game, histories, payoffs, utility_matrix, spe_profiles,
                   session>>

\* ProbabilityAssigner.normalize_probabilities(scenario.outgoing_actions);
\* result.again tells that the preceding operation was a successful
\* normalize_probabilities of the same actions, result.changed that this one
\* changed a probability
NormalizeProbabilities(s) ==
    /\ prob_ops < MaxProbOps
    /\ prob_ops' = prob_ops + 1
    /\ LET actions == game.scenarios[s].outgoing_actions
       IN  IF RatLt(Zero, normalize_total(probabilities, probability[game.obj], actions))
           THEN LET new == normalize_probabilities(probabilities,
                                                   probability[game.obj], actions)
                IN  /\ probabilities' = new.probabilities
                    /\ probability' = [probability EXCEPT ![game.obj] = new.probability]
                    /\ result' = [op |-> "normalize_probabilities", ok |-> TRUE,
                                  scenario |-> s,
                                  again |-> /\ result.op = "normalize_probabilities"
                                            /\ result.ok
                                            /\ result.scenario = s,
                                  changed |-> new.probability # probability[game.obj]]
           ELSE /\ UNCHANGED <<probabilities, probability>>
                /\ result' = [op |-> "normalize_probabilities", ok |-> FALSE,
                              scenario |-> s, again |-> FALSE, changed |-> FALSE]
    /\ UNCHANGED <<game, histories, payoffs, utility_matrix, spe_profiles,
                   session>>

\* ProbabilityAssigner.validate_probabilities(scenario)
ValidateProbabilities(s) ==
    /\ LET returned == validate_probabilities(probabilities, probability[game.obj],
                                              game.scenarios[s].outgoing_actions)
       IN  result' = [op |-> "validate_probabilities", ok |-> returned # "raise",
                      scenario |-> s, returned |-> returned]
    /\ UNCHANGED <<game, probability, probabilities, histories, payoffs,
                   utility_matrix, spe_profiles, prob_ops, session>>

Next ==
    \/ \E p \in 1..MaxPlayers, c \in TreeInputs : BuildTree(p, c[1], c[2])
    \/ GenerateHistories
    \/ \E s \in DecisionScenarios(game) :
         \E values \in AssignInputs(Len(game.scenarios[s].outgoing_actions)) :
           AssignProbabilities(s, values)
    \/ \E s \in DecisionScenarios(game) : NormalizeProbabilities(s)

Spec == Init /\ [][Next]_vars

\* ------------------------------------------- probabilities of one game
ProbTreeInputs == {<<1, 2>>, <<1, 3>>, <<2, 2>>}

\* value vectors for n actions: distributions, vectors that do not sum to 1
\* and one with a value out of range
ProbInputs(n) ==
    IF n = 2
    THEN {<<Half, Half>>, <<<<1, 4>>, <<3, 4>>>>, <<Half, One>>,
          <<<<1, 8>>, <<3, 8>>>>, <<One, <<3, 2>>>>}
    ELSE {<<Half, <<1, 4>>, <<1, 4>>>>, <<Half, One, One>>,
          <<Half, One, <<1, 4>>>>, <<<<1, 8>>, <<3, 4>>, <<3, 8>>>>,
          <<Zero, Zero, Zero>>}

\* The state after build_tree and one assign_probabilities.
InitProb ==
    \E c \in ProbTreeInputs :
      LET built == BuiltGame(1, 1, c[1], c[2])
      IN  \E s \in DecisionScenarios(built) :
            \E values \in {v \in ProbInputs(c[2]) :
                              validate_probability_assignments(
                                built.scenarios[s].outgoing_actions, v)} :
              LET new == assign_probabilities(EmptyDict,
                             [a \in 1..Len(built.actions) |-> Zero],
                             built.scenarios[s].outgoing_actions, values)
              IN  /\ game = built
                  /\ probability = <<new.probability>>
                  /\ probabilities = new.probabilities
                  /\ histories = <<>>
                  /\ payoffs = <<>>
                  /\ utility_matrix = <<>>
                  /\ spe_profiles = <<>>
                  /\ result = [op |-> "assign_probabilities", ok |-> TRUE]
                  /\ prob_ops = 0
                  /\ session = NoSession

NextProb ==
    \/ \E s \in DecisionScenarios(game) :
         \E values \in ProbInputs(Len(game.scenarios[s].outgoing_actions)) :
           AssignProbabilities(s, values)
    \/ \E s \in DecisionScenarios(game) : NormalizeProbabilities(s)
    \/ \E s \in 1..Len(game.scenarios) : ValidateProbabilities(s)

SpecProb == InitProb /\ [][NextProb]_vars

\* ------------------------------------- payoffs, utilities and equilibria
\* a step of 3e-7, below the tolerance of the equilibrium search
Delta == <<3, 10000000>>

\* the payoff values of one player over n histories: constant, increasing,
\* decreasing, alternating, equal in pairs, increasing in steps of Delta, and
\* two vectors with a high first and last value
PayoffVectors(n) ==
    {[h \in 1..n |-> Zero],
     [h \in 1..n |-> <<h, 1>>],
     [h \in 1..n |-> <<-h, 1>>],
     [h \in 1..n |-> <<h % 2, 1>>],
     [h \in 1..n |-> <<(h + 1) \div 2, 1>>],
     [h \in 1..n |-> RatAdd(One, RatMul(<<h - 1, 1>>, Delta))],
     [h \in 1..n |-> IF h = 1 THEN <<3, 1>> ELSE IF h = n THEN <<2, 1>> ELSE Zero],
     [h \in 1..n |-> IF h = 1 THEN One ELSE IF h = n THEN <<2, 1>> ELSE Zero]}

\* payoff matrices: one row per history, one column per player
PayoffMatrices(n, players) ==
    {[h \in 1..n |-> [pl \in 1..players |-> f[pl][h]]] :
        f \in [1..players -> PayoffVectors(n)]}

EqTreeInputs ==
    {c \in (1..MaxRounds) \X (1..MaxStrategies) : Pow(c[2], c[1]) <= MaxHistories}

\* the distributions given to every decision scenario: uniform, all weight
\* on the first action, and 1/4 - 3/4 on the first two actions
EqProbInputs(n) ==
    {[i \in 1..n |-> <<1, n>>],
     [i \in 1..n |-> IF i = 1 THEN One ELSE Zero],
     [i \in 1..n |-> IF n = 1 THEN One
                     ELSE IF i = 1 THEN <<1, 4>>
                     ELSE IF i = 2 THEN <<3, 4>> ELSE Zero]}

\* player orders: none configured, or the players in descending id
OrderInputs(players) == {<<>>, [i \in 1..players |-> players + 1 - i]}

\* GameController.configure_order: round i gets player_ids[(i - 1) mod n]
set_round_players(rounds, player_ids) ==
    [i \in 1..Len(rounds) |->
       [rounds[i] EXCEPT !.active_player =
          player_ids[((i - 1) % Len(player_ids)) + 1]]]

\* assign_probabilities(scenario.outgoing_actions, values) at every decision
\* scenario, in scenario order
RECURSIVE AssignAll(_, _, _, _)
AssignAll(g, values, s, st) ==
    IF s > Len(g.scenarios) THEN st
    ELSE IF g.scenarios[s].outgoing_actions = <<>>
    THEN AssignAll(g, values, s + 1, st)
    ELSE AssignAll(g, values, s + 1,
                   assign_probabilities(st.probabilities, st.probability,
                                        g.scenarios[s].outgoing_actions, values))

\* The state after build_tree, an optional configure_order, an
\* assign_probabilities at every decision scenario and generate_histories.
InitEq ==
    \E p \in 1..MaxPlayers, c \in EqTreeInputs :
      \E values \in EqProbInputs(c[2]), order \in OrderInputs(p) :
        LET built == BuiltGame(1, p, c[1], c[2])
            ordered == IF order = <<>> THEN built
                       ELSE [built EXCEPT !.rounds = set_round_players(@, order)]
            assigned == AssignAll(built, values, 1,
                            [probabilities |-> EmptyDict,
                             probability |-> [a \in 1..Len(built.actions) |-> Zero]])
        IN  /\ game = [ordered EXCEPT !.adjacency = SortAdjacency(@)]
            /\ probability = <<assigned.probability>>
            /\ probabilities = assigned.probabilities
            /\ histories = generate_histories(built, assigned.probability)
            /\ payoffs = <<>>
            /\ utility_matrix = <<>>
            /\ spe_profiles = <<>>
            /\ result = [op |-> "generate_histories", ok |-> TRUE]
            /\ prob_ops = 0
            /\ session = NoSession

\* The caller builds the Payoff objects of a payoff matrix for the generated
\* histories and the game's players; with missing = 1 the last one is left out.
SetPayoffs(payoffs_matrix, missing) ==
    /\ payoffs = <<>>
    /\ LET all == PayoffList(payoffs_matrix, histories, game.players)
       IN  payoffs' = SubSeq(all, 1, Len(all) - missing)
    /\ result' = [op |-> "set_payoffs", ok |-> TRUE]
    /\ UNCHANGED <<game, probability, probabilities, histories, utility_matrix,
                   spe_profiles, prob_ops, session>>

\* UtilityCalculator.calculate_utilities(histories, payoffs)
CalculateUtilities ==
    /\ IF validate_data_consistency(histories, payoffs)
       THEN /\ utility_matrix' = calculate_utilities(histories, payoffs)
            /\ payoffs' = update_expected_utilities(histories, payoffs)
            /\ result' = [op |-> "calculate_utilities", ok |-> TRUE]
       ELSE /\ UNCHANGED <<utility_matrix, payoffs>>
            /\ result' = [op |-> "calculate_utilities", ok |-> FALSE]
    /\ UNCHANGED <<game, probability, probabilities, histories, spe_profiles,
                   prob_ops, session>>

\* EquilibriumFinder.find_spe_profiles(game, histories, payoffs, game.players);
\* spe_profiles is EquilibriumFinder.equilibrium_profiles, the returned list
\* is the `strategies` of each profile
FindSpeProfiles ==
    /\ IF ~validate_equilibrium_finding_data(game, histories, payoffs, game.players)
       THEN /\ UNCHANGED spe_profiles
            /\ result' = [op |-> "find_spe_profiles", ok |-> FALSE]
       ELSE IF ~find_spe_profiles_ok(game, histories, payoffs, game.players)
       THEN /\ spe_profiles' = <<>>
            /\ result' = [op |-> "find_spe_profiles", ok |-> FALSE]
       ELSE /\ spe_profiles' = find_spe_profiles(game, histories, payoffs,
                                                 game.players)
            /\ result' = [op |-> "find_spe_profiles", ok |-> TRUE]
    /\ UNCHANGED <<game, probability, probabilities, histories, payoffs,
                   utility_matrix, prob_ops, session>>

NextEq ==
    \/ \E payoffs_matrix \in PayoffMatrices(Len(histories), Len(game.players)),
          missing \in {0, 1} : SetPayoffs(payoffs_matrix, missing)
    \/ CalculateUtilities
    \/ FindSpeProfiles

SpecEq == InitEq /\ [][NextEq]_vars

\* ------------------------------------------- Game states, GameController
GameStates == {"CREATED", "RUNNING", "COMPLETED", "DELETED"}

valid_transitions_Backward(current) ==
    CASE current = "CREATED" -> {"RUNNING", "DELETED"}
      [] current = "RUNNING" -> {"COMPLETED", "DELETED", "CREATED"}
      [] current = "COMPLETED" -> {"DELETED"}
      [] OTHER -> {}

\* Game._validate_state_transition: the valid_transitions table
valid_transitions(current) ==
    CASE current = "CREATED" -> {"RUNNING", "DELETED"}
      [] current = "RUNNING" -> {"COMPLETED", "DELETED"}
      [] current = "COMPLETED" -> {"DELETED"}
      [] OTHER -> {}

\* Game.set_state(new_state) does not raise
set_state_ok(g, new_state) ==
    /\ new_state \in GameStates
    /\ new_state \in valid_transitions(g.state)

\* Game.set_state(new_state), when it does not raise
set_state(g, new_state) == [g EXCEPT !.state = new_state]

\* Game.can_start
can_start(g) ==
    /\ g.state = "CREATED"
    /\ Len(g.players) > 0
    /\ Len(g.rounds) > 0
    /\ Len(g.scenarios) > 0

\* str.upper() of the state names the commands are given
Upper(state_str) ==
    CASE state_str = "running" -> "RUNNING"
      [] state_str = "completed" -> "COMPLETED"
      [] state_str = "Deleted" -> "DELETED"
      [] state_str = "paused" -> "PAUSED"
      [] OTHER -> state_str

\* GameController._generate_cyclic_player_order
generate_cyclic_player_order(players, rounds) ==
    [i \in 1..rounds |-> players[((i - 1) % Len(players)) + 1]]

\* ProbabilityAssigner.get_probabilities_summary: the values of the outgoing
\* actions of every scenario that has some
get_probabilities_summary(cache, prob, g) ==
    [s \in DecisionScenarios(g) |->
       [i \in 1..Len(g.scenarios[s].outgoing_actions) |->
          get_probability(cache, prob, g.scenarios[s].outgoing_actions[i])]]

\* DomainValidator.validate_player_order_configuration does not raise
validate_player_order_configuration(player_ids, game_players) ==
    /\ player_ids # <<>>
    /\ Len(player_ids) = Len(game_players)
    /\ Cardinality({player_ids[i] : i \in 1..Len(player_ids)}) = Len(player_ids)
    /\ \A i \in 1..Len(player_ids) :
         \E j \in 1..Len(game_players) : game_players[j] = player_ids[i]
    /\ \A i \in 1..Len(player_ids) : player_ids[i] > 0

\* GameController._validate_active_game does not raise
HasActiveGame == session.active_game.obj # 0

\* a write to a field of the session's active Game; TreeBuilder.game is the
\* same object unless a later build_tree replaced it
WriteActiveGame(new) ==
    /\ session' = [session EXCEPT !.active_game = new]
    /\ game' = IF game.obj = new.obj THEN new ELSE game

\* parameters of create_game: trees of one and two rounds, a non-positive
\* value, more root subtrees than letters, and a rejected complexity
CtlTreeInputs ==
    {<<1, 2>>, <<2, 2>>, <<0, 2>>, <<1, 0>>,
     <<1, NumLetters + 1>>, <<RejectedRounds, 2>>}

CtlOrderInputs ==
    {<<>>, <<1>>, <<1, 2>>, <<2, 1>>, <<1, 1>>, <<0, 1>>, <<1, 3>>}

StateInputs == {"running", "CREATED", "completed", "Deleted", "paused"}

\* GameController.create_game(num_players, num_rounds, num_strategies)
CreateGame(players, rounds, strategies) ==
    /\ Len(probability) < MaxBuilds
    /\ LET failed == [op |-> "create_game", ok |-> FALSE, players |-> players,
                      rounds |-> rounds, strategies |-> strategies]
       IN  IF players <= 0 \/ rounds <= 0 \/ strategies <= 0
           THEN /\ result' = failed
                /\ UNCHANGED <<game, probability, session>>
           ELSE IF ~validate_game_complexity(rounds, strategies)
           THEN /\ result' = failed
                /\ UNCHANGED <<game, probability, session>>
           ELSE IF ~create_actions_ok(create_scenarios(rounds, strategies))
           THEN /\ game' = NewGame(Len(probability) + 1, players, rounds)
                /\ probability' = Append(probability, <<>>)
                /\ result' = failed
                /\ UNCHANGED session
           ELSE /\ game' = BuiltGame(Len(probability) + 1, players, rounds, strategies)
                /\ probability' = Append(probability,
                                         [a \in 1..Len(game'.actions) |-> Zero])
                /\ session' = [session EXCEPT
                      !.num_players = players,
                      !.num_rounds = rounds,
                      !.num_strategies = strategies,
                      !.player_order = generate_cyclic_player_order(game'.players, rounds),
                      !.active_game = game',
                      !.total_histories = calculate_total_histories(rounds, strategies)]
                /\ result' = [failed EXCEPT !.ok = TRUE]
    /\ UNCHANGED <<probabilities, histories, payoffs, utility_matrix,
                   spe_profiles, prob_ops>>

\* GameController.configure_order(player_ids)
ConfigureOrder(player_ids) ==
    /\ LET g == session.active_game
           accepted == /\ HasActiveGame
                       /\ player_ids # <<>>
                       /\ \A i \in 1..Len(player_ids) : player_ids[i] > 0
                       /\ g.state = "CREATED"
                       /\ validate_player_order_configuration(player_ids, g.players)
       IN  IF accepted
           THEN /\ session' = [session EXCEPT
                      !.player_order = player_ids,
                      !.active_game = [g EXCEPT
                          !.rounds = set_round_players(g.rounds, player_ids),
                          !.state = "CREATED"]]
                /\ game' = IF game.obj = g.obj THEN session'.active_game ELSE game
                /\ result' = [op |-> "configure_order", ok |-> TRUE]
           ELSE /\ UNCHANGED <<game, session>>
                /\ result' = [op |-> "configure_order", ok |-> FALSE]
    /\ UNCHANGED <<probability, probabilities, histories, payoffs,
                   utility_matrix, spe_profiles, prob_ops>>

\* GameController.update_game_state(state_str), which stores the state with
\* SessionManager.update_game_state
UpdateGameState(state_str) ==
    /\ IF Upper(state_str) \in GameStates /\ HasActiveGame
       THEN /\ WriteActiveGame([session.active_game EXCEPT !.state = Upper(state_str)])
            /\ result' = [op |-> "update_game_state", ok |-> TRUE,
                          state_str |-> state_str]
       ELSE /\ UNCHANGED <<game, session>>
            /\ result' = [op |-> "update_game_state", ok |-> FALSE,
                          state_str |-> state_str]
    /\ UNCHANGED <<probability, probabilities, histories, payoffs,
                   utility_matrix, spe_profiles, prob_ops>>

\* GameController.finalize_probability_assignment: save_probabilities_summary,
\* then update_game_state("RUNNING")
FinalizeProbabilityAssignment ==
    /\ LET g == session.active_game
           summary == get_probabilities_summary(probabilities, probability[g.obj], g)
       IN  IF HasActiveGame /\ DecisionScenarios(g) # {}
           THEN /\ session' = [session EXCEPT
                      !.probabilities = summary,
                      !.active_game = [g EXCEPT !.state = "RUNNING"]]
                /\ game' = IF game.obj = g.obj THEN session'.active_game ELSE game
                /\ result' = [op |-> "finalize_probability_assignment", ok |-> TRUE]
           ELSE /\ UNCHANGED <<game, session>>
                /\ result' = [op |-> "finalize_probability_assignment", ok |-> FALSE]
    /\ UNCHANGED <<probability, probabilities, histories, payoffs,
                   utility_matrix, spe_profiles, prob_ops>>

\* GameController.delete_game: SessionManager.clear_session
DeleteGame ==
    /\ IF HasActiveGame
       THEN /\ session' = [session EXCEPT
                  !.player_order = <<>>,
                  !.history_list = <<>>,
                  !.utility_matrix = <<>>,
                  !.payoffs = <<>>,
                  !.probabilities = <<>>,
                  !.equilibria = <<>>,
                  !.temp_histories = <<>>,
                  !.active_game = NoGame]
            /\ result' = [op |-> "delete_game", ok |-> TRUE]
       ELSE /\ UNCHANGED session
            /\ result' = [op |-> "delete_game", ok |-> FALSE]
    /\ UNCHANGED <<game, probability, probabilities, histories, payoffs,
                   utility_matrix, spe_profiles, prob_ops>>

\* Game.set_state(new_state) on the session's active game
SetState(new_state) ==
    /\ HasActiveGame
    /\ IF set_state_ok(session.active_game, new_state)
       THEN /\ WriteActiveGame(set_state(session.active_game, new_state))
            /\ result' = [op |-> "set_state", ok |-> TRUE, new_state |-> new_state]
       ELSE /\ UNCHANGED <<game, session>>
            /\ result' = [op |-> "set_state", ok |-> FALSE, new_state |-> new_state]
    /\ UNCHANGED <<probability, probabilities, histories, payoffs,
                   utility_matrix, spe_profiles, prob_ops>>

\* Game.start()
Start ==
    /\ HasActiveGame
    /\ IF can_start(session.active_game) /\ set_state_ok(session.active_game, "RUNNING")
       THEN /\ WriteActiveGame(set_state(session.active_game, "RUNNING"))
            /\ result' = [op |-> "start", ok |-> TRUE]
       ELSE /\ UNCHANGED <<game, session>>
            /\ result' = [op |-> "start", ok |-> FALSE]
    /\ UNCHANGED <<probability, probabilities, histories, payoffs,
                   utility_matrix, spe_profiles, prob_ops>>

\* Game.complete()
Complete ==
    /\ HasActiveGame
    /\ IF session.active_game.state = "RUNNING"
          /\ set_state_ok(session.active_game, "COMPLETED")
       THEN /\ WriteActiveGame(set_state(session.active_game, "COMPLETED"))
            /\ result' = [op |-> "complete", ok |-> TRUE]
       ELSE /\ UNCHANGED <<game, session>>
            /\ result' = [op |-> "complete", ok |-> FALSE]
    /\ UNCHANGED <<probability, probabilities, histories, payoffs,
                   utility_matrix, spe_profiles, prob_ops>>

\* Game.delete()
Delete ==
    /\ HasActiveGame
    /\ IF set_state_ok(session.active_game, "DELETED")
       THEN /\ WriteActiveGame(set_state(session.active_game, "DELETED"))
            /\ result' = [op |-> "delete", ok |-> TRUE]
       ELSE /\ UNCHANGED <<game, session>>
            /\ result' = [op |-> "delete", ok |-> FALSE]
    /\ UNCHANGED <<probability, probabilities, histories, payoffs,
                   utility_matrix, spe_profiles, prob_ops>>

\* the commands of the controller
ControllerCommand ==
    \/ \E p \in 0..MaxPlayers, c \in CtlTreeInputs : CreateGame(p, c[1], c[2])
    \/ \E player_ids \in CtlOrderInputs : ConfigureOrder(player_ids)
    \/ \E state_str \in StateInputs : UpdateGameState(state_str)
    \/ FinalizeProbabilityAssignment
    \/ DeleteGame

\* the methods of the Game object
GameMethod ==
    \/ \E new_state \in GameStates \cup {"PAUSED"} : SetState(new_state)
    \/ Start
    \/ Complete
    \/ Delete

NextCtl == ControllerCommand \/ GameMethod

SpecCtl == Init /\ [][NextCtl]_vars

\* ------------------------------------------------ build_tree on any integers
\* parameters of build_tree, non-positive ones included
AnyTreeInputs == (-1..2) \X (-1..2)

\* parameters of validate_game_complexity around the ceiling
ComplexityInputs ==
    {<<r, 2>> : r \in 1..RejectedRounds} \cup {<<r, 3>> : r \in 1..10}
    \cup {<<3, 31>>, <<4, 31>>}

\* DomainValidator.validate_game_complexity(rounds, strategies), as called by
\* create_game and by build_tree before anything is created
ValidateGameComplexity(rounds, strategies) ==
    /\ result' = [op |-> "validate_game_complexity",
                  ok |-> validate_game_complexity(rounds, strategies),
                  rounds |-> rounds, strategies |-> strategies]
    /\ UNCHANGED <<game, probability, probabilities, histories, payoffs,
                   utility_matrix, spe_profiles, prob_ops, session>>

NextTree ==
    \/ \E p \in -1..MaxPlayers, c \in AnyTreeInputs : BuildTree(p, c[1], c[2])
    \/ \E c \in ComplexityInputs : ValidateGameComplexity(c[1], c[2])

SpecTree == Init /\ [][NextTree]_vars

\* ------------------------------------- generate_histories on any Game
HistTreeInputs == {<<1, 2>>, <<2, 2>>, <<1, 3>>, <<2, 3>>}

RECURSIVE PathTo(_, _)
\* the scenarios on the path from the root to scenario s, s included, by
\* the children lists
PathTo(g, s) ==
    IF s = g.scenarios[1].scenario_id THEN {s}
    ELSE LET parent == CHOOSE q \in 1..Len(g.scenarios) :
                          \E k \in 1..Len(g.scenarios[q].children) :
                            g.scenarios[q].children[k] = s
         IN  {s} \cup PathTo(g, g.scenarios[parent].scenario_id)

\* Game objects a caller can hand to generate_histories: a built tree, the
\* tree with the destination of one action set to a scenario on the path to
\* its origin or to None, and the tree without root, without actions,
\* without adjacency or without scenarios
HistTrees ==
    UNION {LET built == BuiltGame(1, 1, c[1], c[2])
           IN  {built,
                [built EXCEPT !.root = NoScenario],
                [built EXCEPT !.actions = <<>>],
                [built EXCEPT !.adjacency = EmptyDict],
                [built EXCEPT !.scenarios = <<>>]}
               \cup {[built EXCEPT !.actions[a].destination_scenario = d] :
                       <<a, d>> \in {x \in (1..Len(built.actions))
                                            \X (NoScenario..Len(built.scenarios)) :
                                       x[2] \in PathTo(built, built.actions[x[1]].origin_scenario)
                                                  \cup {NoScenario}}}
           : c \in HistTreeInputs}

InitHist ==
    /\ game \in HistTrees
    /\ probability = <<[a \in 1..Len(BuiltGame(1, 1, game.num_rounds, game.num_strategies).actions) |-> Zero]>>
    /\ probabilities = EmptyDict
    /\ histories = <<>>
    /\ payoffs = <<>>
    /\ utility_matrix = <<>>
    /\ spe_profiles = <<>>
    /\ result = [op |-> "init", ok |-> TRUE]
    /\ prob_ops = 0
    /\ session = NoSession

NextHist == GenerateHistories

SpecHist == InitHist /\ [][NextHist]_vars

\* ------------------------------------------------ the controller's use cases
\* the temporary History register_payoffs builds for a row of the matrix
TempHistory(history_id) ==
    [history_id |-> history_id, obj |-> 0, actions |-> <<>>,
     total_probability |-> Zero]

\* a Payoff together with the History object it points to
PayoffOf(payoff_id, player, history, value) ==
    Payoff(payoff_id, player, history, value) @@ [history_object |-> history]

\* register_payoffs: the Payoff objects of the matrix, row by row, one per
\* column that has a player in game.players
RECURSIVE payoffs_objects(_, _, _, _)
payoffs_objects(payoffs_matrix, players, history_idx, acc) ==
    IF history_idx > Len(payoffs_matrix) THEN acc
    ELSE LET payoff_vector == payoffs_matrix[history_idx]
             n == IF Len(payoff_vector) < Len(players)
                  THEN Len(payoff_vector) ELSE Len(players)
         IN  payoffs_objects(payoffs_matrix, players, history_idx + 1,
               acc \o [player_idx \in 1..n |->
                         PayoffOf(Len(acc) + player_idx, players[player_idx],
                                  TempHistory(history_idx),
                                  payoff_vector[player_idx])])

\* `if history not in game.histories: game.histories.append(history)`;
\* History.__eq__ compares history_id
RECURSIVE append_temp_histories(_, _, _)
append_temp_histories(hs, temp_histories, i) ==
    IF i > Len(temp_histories) THEN hs
    ELSE append_temp_histories(
           IF \E h \in 1..Len(hs) : hs[h].history_id = temp_histories[i].history_id
           THEN hs ELSE Append(hs, temp_histories[i]),
           temp_histories, i + 1)

\* the loop of _assign_histories_to_payoffs; acc = [payoffs, raised].
\* Payoff.calculate_expected_utility raises for a probability outside [0, 1],
\* after payoff.history and payoff.player were written.
RECURSIVE AssignHistoriesLoop(_, _, _, _)
AssignHistoriesLoop(hs, players, payoff_index, acc) ==
    IF payoff_index > Len(acc.payoffs) \/ acc.raised THEN acc
    ELSE LET players_count == Len(players)
             history_index == (payoff_index - 1) \div players_count
             player_index == (payoff_index - 1) % players_count
             history == hs[history_index + 1]
             bad == \/ RatLt(history.total_probability, Zero)
                    \/ RatLt(One, history.total_probability)
             payoff == [acc.payoffs[payoff_index] EXCEPT
                          !.history = history.history_id,
                          !.history_object = history,
                          !.player = players[player_index + 1],
                          !.expected_utility =
                             IF bad THEN @
                             ELSE RatMul(acc.payoffs[payoff_index].value,
                                         history.total_probability)]
         IN  AssignHistoriesLoop(hs, players, payoff_index + 1,
               [payoffs |-> [acc.payoffs EXCEPT ![payoff_index] = payoff],
                raised |-> bad])

\* the checks _assign_histories_to_payoffs makes before its loop
assign_histories_to_payoffs_ok(sess) ==
    /\ sess.history_list # <<>>
    /\ sess.payoffs # <<>>
    /\ Len(sess.payoffs) = Len(sess.history_list) * Len(sess.player_order)

\* _assign_histories_to_payoffs: [payoffs, raised] after the loop
assign_histories_to_payoffs(sess) ==
    AssignHistoriesLoop(sess.history_list, sess.player_order, 1,
                        [payoffs |-> sess.payoffs, raised |-> FALSE])

\* _get_scenario_by_index: the position in game.scenarios of the
\* scenario_index-th scenario with outgoing actions, 0 when it raises
get_scenario_by_index(g, scenario_index) ==
    LET scenarios_with_actions == SortedSet(DecisionScenarios(g))
    IN  IF 1 <= scenario_index /\ scenario_index <= Len(scenarios_with_actions)
        THEN scenarios_with_actions[scenario_index] ELSE 0

\* _get_actions_by_labels does not raise: every label is in the game
get_actions_by_labels_ok(g, action_labels) ==
    \A i \in 1..Len(action_labels) :
      \E a \in 1..Len(g.actions) : g.actions[a].label = action_labels[i]

\* _get_actions_by_labels: action_map keeps the last action of a label
get_actions_by_labels(g, action_labels) ==
    [i \in 1..Len(action_labels) |->
       CHOOSE a \in 1..Len(g.actions) :
         /\ g.actions[a].label = action_labels[i]
         /\ \A b \in (a + 1)..Len(g.actions) : g.actions[b].label # action_labels[i]]

\* _validate_utilities_result does not raise
validate_utilities_result(g, utilities) ==
    /\ utilities # <<>>
    /\ Len(utilities) = Len(g.histories)
    /\ \A i \in 1..Len(utilities) : Len(utilities[i]) = Len(g.players)

\* GameController.assign_probabilities(scenario_index, action_labels, values):
\* the values are stored by ProbabilityAssigner.assign_probabilities before
\* validate_probabilities checks their sum
ControllerAssignProbabilities(scenario_index, action_labels, values) ==
    /\ LET g == session.active_game
           s == get_scenario_by_index(g, scenario_index)
           actions == get_actions_by_labels(g, action_labels)
           failed == [op |-> "GameController.assign_probabilities", ok |-> FALSE,
                      stored |-> FALSE]
       IN  IF \/ ~HasActiveGame
              \/ s = 0
              \/ ~get_actions_by_labels_ok(g, action_labels)
           THEN /\ UNCHANGED <<probabilities, probability>>
                /\ result' = failed
           ELSE IF \/ Len(actions) # Len(values)
                   \/ ~validate_probability_assignments(actions, values)
           THEN /\ UNCHANGED <<probabilities, probability>>
                /\ result' = failed
           ELSE LET new == assign_probabilities(probabilities, probability[g.obj],
                                                actions, values)
                IN  /\ probabilities' = new.probabilities
                    /\ probability' = [probability EXCEPT ![g.obj] = new.probability]
                    /\ result' = [failed EXCEPT
                          !.stored = TRUE,
                          !.ok = validate_probabilities(new.probabilities,
                                     new.probability,
                                     g.scenarios[s].outgoing_actions) # "raise"]
    /\ UNCHANGED <<game, histories, payoffs, utility_matrix, spe_profiles,
                   prob_ops, session>>

\* GameController.normalize_probabilities(action_labels, values):
\* assign_probabilities, then normalize_probabilities of the same actions
ControllerNormalizeProbabilities(action_labels, values) ==
    /\ LET g == session.active_game
           actions == get_actions_by_labels(g, action_labels)
           failed == [op |-> "GameController.normalize_probabilities",
                      ok |-> FALSE, stored |-> FALSE]
       IN  IF \/ ~HasActiveGame
              \/ ~get_actions_by_labels_ok(g, action_labels)
           THEN /\ UNCHANGED <<probabilities, probability>>
                /\ result' = failed
           ELSE IF \/ Len(actions) # Len(values)
                   \/ ~validate_probability_assignments(actions, values)
           THEN /\ UNCHANGED <<probabilities, probability>>
                /\ result' = failed
           ELSE LET new == assign_probabilities(probabilities, probability[g.obj],
                                                actions, values)
                    normalized == normalize_probabilities(new.probabilities,
                                      new.probability, actions)
                IN  IF RatLt(Zero, normalize_total(new.probabilities,
                                                   new.probability, actions))
                    THEN /\ probabilities' = normalized.probabilities
                         /\ probability' = [probability EXCEPT
                                              ![g.obj] = normalized.probability]
                         /\ result' = [failed EXCEPT !.ok = TRUE, !.stored = TRUE]
                    ELSE /\ probabilities' = new.probabilities
                         /\ probability' = [probability EXCEPT
                                              ![g.obj] = new.probability]
                         /\ result' = [failed EXCEPT !.stored = TRUE]
    /\ UNCHANGED <<game, histories, payoffs, utility_matrix, spe_profiles,
                   prob_ops, session>>

\* GameController.register_payoffs(payoffs_matrix)
RegisterPayoffs(payoffs_matrix) ==
    /\ LET g == session.active_game
           temp_histories == [h \in 1..Len(payoffs_matrix) |-> TempHistory(h)]
           objects == payoffs_objects(payoffs_matrix, g.players, 1, <<>>)
       IN  IF ~HasActiveGame \/ objects = <<>>
           THEN /\ UNCHANGED <<game, session>>
                /\ result' = [op |-> "register_payoffs", ok |-> FALSE]
           ELSE /\ session' = [session EXCEPT
                      !.payoffs = objects,
                      !.temp_histories = temp_histories,
                      !.active_game = [g EXCEPT
                          !.payoffs = objects,
                          !.histories = append_temp_histories(@, temp_histories, 1)]]
                /\ game' = IF game.obj = g.obj THEN session'.active_game ELSE game
                /\ result' = [op |-> "register_payoffs", ok |-> TRUE]
    /\ UNCHANGED <<probability, probabilities, histories, payoffs,
                   utility_matrix, spe_profiles, prob_ops>>

\* the session after _assign_histories_to_payoffs ran its loop: the Payoff
\* objects are rewritten, and game.payoffs becomes the list unless the loop
\* raised (it then keeps its objects, which are the session's when it has any)
AfterAssignHistories(sess) ==
    LET done == assign_histories_to_payoffs(sess)
    IN  [sess EXCEPT
           !.payoffs = done.payoffs,
           !.active_game.payoffs =
              IF done.raised /\ @ = <<>> THEN <<>> ELSE done.payoffs]

\* the state of the game not looked at
validate_game_state_for_histories_Any(g) == TRUE

\* _validate_game_state_for_histories does not raise
validate_game_state_for_histories(g) == g.state = "RUNNING"

\* GameController.generate_histories
ControllerGenerateHistories ==
    /\ LET g == session.active_game
           failed == [op |-> "GameController.generate_histories", ok |-> FALSE,
                      rejected |-> ""]
       IN  IF ~HasActiveGame
           THEN /\ UNCHANGED <<game, session, histories>>
                /\ result' = [failed EXCEPT !.rejected = "no game"]
           ELSE IF ~validate_game_state_for_histories(g)
           THEN /\ UNCHANGED <<game, session, histories>>
                /\ result' = [failed EXCEPT !.rejected = "state"]
           ELSE IF ~generate_histories_ok(g)
           THEN /\ histories' = <<>>
                /\ UNCHANGED <<game, session>>
                /\ result' = failed
           ELSE IF walk_histories(g, probability[g.obj]).raised
           THEN /\ histories' = walk_histories(g, probability[g.obj]).histories
                /\ session' = [session EXCEPT
                                 !.active_game.adjacency = SortAdjacency(@)]
                /\ game' = IF game.obj = g.obj THEN session'.active_game ELSE game
                /\ result' = failed
           ELSE LET generated == generate_histories(g, probability[g.obj])
                    saved == [session EXCEPT
                                !.history_list = generated,
                                !.active_game.adjacency = SortAdjacency(@),
                                !.active_game.histories = generated]
                IN  /\ histories' = generated
                    /\ IF ~assign_histories_to_payoffs_ok(saved)
                       THEN /\ session' = saved
                            /\ result' = [failed EXCEPT !.rejected = "payoffs"]
                       ELSE /\ session' = AfterAssignHistories(saved)
                            /\ result' = [failed EXCEPT
                                  !.ok = ~assign_histories_to_payoffs(saved).raised]
                    /\ game' = IF game.obj = g.obj THEN session'.active_game ELSE game
    /\ UNCHANGED <<probability, probabilities, payoffs, utility_matrix,
                   spe_profiles, prob_ops>>

\* GameController.calculate_utilities
ControllerCalculateUtilities ==
    /\ LET g == session.active_game
           failed == [op |-> "GameController.calculate_utilities", ok |-> FALSE,
                      rejected |-> ""]
           assigned == AfterAssignHistories(session)
           hs == assigned.active_game.histories
           pfs == assigned.active_game.payoffs
           utilities == calculate_utilities(hs, pfs)
           updated == update_expected_utilities(hs, pfs)
           calculated == [assigned EXCEPT !.payoffs = updated,
                                          !.active_game.payoffs = updated]
       IN  IF ~HasActiveGame
           THEN /\ UNCHANGED <<game, session, utility_matrix>>
                /\ result' = [failed EXCEPT !.rejected = "no game"]
           ELSE IF g.histories = <<>> \/ g.payoffs = <<>>
           THEN /\ UNCHANGED <<game, session, utility_matrix>>
                /\ result' = [failed EXCEPT !.rejected = "missing"]
           ELSE IF g.state # "RUNNING"
           THEN /\ UNCHANGED <<game, session, utility_matrix>>
                /\ result' = [failed EXCEPT !.rejected = "state"]
           ELSE IF ~assign_histories_to_payoffs_ok(session)
           THEN /\ UNCHANGED <<game, session, utility_matrix>>
                /\ result' = [failed EXCEPT !.rejected = "payoffs"]
           ELSE IF \/ assign_histories_to_payoffs(session).raised
                   \/ ~validate_data_consistency(hs, pfs)
           THEN /\ session' = assigned
                /\ game' = IF game.obj = g.obj THEN session'.active_game ELSE game
                /\ UNCHANGED utility_matrix
                /\ result' = failed
           ELSE /\ utility_matrix' = utilities
                /\ IF ~validate_utilities_result(assigned.active_game, utilities)
                   THEN /\ session' = calculated
                        /\ result' = [failed EXCEPT !.rejected = "result"]
                   ELSE /\ session' = [calculated EXCEPT
                                         !.utility_matrix = utilities,
                                         !.active_game.state = "RUNNING"]
                        /\ result' = [failed EXCEPT !.ok = TRUE]
                /\ game' = IF game.obj = g.obj THEN session'.active_game ELSE game
    /\ UNCHANGED <<probability, probabilities, histories, payoffs,
                   spe_profiles, prob_ops>>

\* GameController.identify_equilibria
IdentifyEquilibria ==
    /\ LET g == session.active_game
           failed == [op |-> "identify_equilibria", ok |-> FALSE]
           profiles == find_spe_profiles(g, g.histories, g.payoffs, g.players)
       IN  IF \/ ~HasActiveGame
              \/ g.histories = <<>>
              \/ g.payoffs = <<>>
              \/ session.utility_matrix = <<>>
           THEN /\ UNCHANGED <<session, spe_profiles>>
                /\ result' = failed
           ELSE IF ~validate_equilibrium_finding_data(g, g.histories, g.payoffs,
                                                     g.players)
           THEN /\ UNCHANGED <<session, spe_profiles>>
                /\ result' = failed
           ELSE IF ~find_spe_profiles_ok(g, g.histories, g.payoffs, g.players)
           THEN /\ spe_profiles' = <<>>
                /\ UNCHANGED session
                /\ result' = failed
           ELSE /\ spe_profiles' = profiles
                /\ IF profiles = <<>>
                   THEN /\ UNCHANGED session
                        /\ result' = failed
                   ELSE /\ session' = [session EXCEPT
                              !.equilibrium_profiles = profiles,
                              !.equilibria = [i \in 1..Len(profiles) |->
                                                profiles[i].strategies]]
                        /\ result' = [failed EXCEPT !.ok = TRUE]
    /\ UNCHANGED <<game, probability, probabilities, histories, payoffs,
                   utility_matrix, prob_ops>>

\* GameController.finalize_utilities_calculation
FinalizeUtilitiesCalculation ==
    /\ IF HasActiveGame /\ session.utility_matrix # <<>>
       THEN /\ WriteActiveGame([session.active_game EXCEPT !.state = "RUNNING"])
            /\ result' = [op |-> "finalize_utilities_calculation", ok |-> TRUE]
       ELSE /\ UNCHANGED <<game, session>>
            /\ result' = [op |-> "finalize_utilities_calculation", ok |-> FALSE]
    /\ UNCHANGED <<probability, probabilities, histories, payoffs,
                   utility_matrix, spe_profiles, prob_ops>>

\* parameters of create_game in the use cases: <<players, rounds, strategies>>
\* with more players than rounds, and as many
AppGameInputs == {<<2, 1, 2>>, <<2, 2, 2>>}

\* the order configured: player 2 before player 1
AppOrderInputs == {<<2, 1>>}

\* the labels of the actions leaving the scenario_index-th decision scenario
\* (of the first one for an index that names none)
ScenarioLabels(g, scenario_index) ==
    LET s == IF get_scenario_by_index(g, scenario_index) = 0
             THEN get_scenario_by_index(g, 1)
             ELSE get_scenario_by_index(g, scenario_index)
        outgoing == g.scenarios[s].outgoing_actions
    IN  [i \in 1..Len(outgoing) |-> g.actions[outgoing[i]].label]

\* values for n actions: a distribution, values that do not sum to 1, and
\* one value too few
AppProbInputs(n) ==
    {[i \in 1..n |-> <<1, n>>],
     [i \in 1..n |-> IF i = 1 THEN Half ELSE One],
     [i \in 1..(n - 1) |-> One]}

\* values to normalise: all equal, and all zero
AppNormalizeInputs(n) == {[i \in 1..n |-> One], [i \in 1..n |-> Zero]}

\* payoff matrices for the active game: a row for every history with one or
\* two columns, and one row less; the value of row h and column p is 10 h + p
AppMatrices(g) ==
    {[h \in 1..c[1] |-> [p \in 1..c[2] |-> <<10 * h + p, 1>>]] :
        c \in {<<g.total_histories, 1>>, <<g.total_histories, 2>>,
               <<g.total_histories - 1, 2>>}}

\* the probability commands are given for the root scenario, or for an
\* index that names no scenario, while the game is CREATED
AssignCommand ==
    \E scenario_index \in 0..1 :
      \E values \in AppProbInputs(Len(ScenarioLabels(session.active_game,
                                                     scenario_index))) :
        ControllerAssignProbabilities(scenario_index,
            ScenarioLabels(session.active_game, scenario_index), values)

NormalizeCommand ==
    \E values \in AppNormalizeInputs(Len(ScenarioLabels(session.active_game, 1))) :
      ControllerNormalizeProbabilities(ScenarioLabels(session.active_game, 1),
                                       values)

\* the commands given on the active game
GameCommand ==
    \/ \E player_ids \in AppOrderInputs : ConfigureOrder(player_ids)
    \/ session.active_game.state = "CREATED" /\ HasActiveGame /\ AssignCommand
    \/ session.active_game.state = "CREATED" /\ HasActiveGame /\ NormalizeCommand
    \/ FinalizeProbabilityAssignment
    \/ \E payoffs_matrix \in AppMatrices(session.active_game) :
         RegisterPayoffs(payoffs_matrix)
    \/ ControllerGenerateHistories
    \/ ControllerCalculateUtilities
    \/ IdentifyEquilibria
    \/ FinalizeUtilitiesCalculation
    \/ UpdateGameState("completed")

\* one game per session
NextApp ==
    \/ /\ ~HasActiveGame
       /\ \E c \in AppGameInputs : CreateGame(c[1], c[2], c[3])
    \/ GameCommand

SpecApp == Init /\ [][NextApp]_vars

\* a session in which create_game is given again: every game has two
\* players, two rounds and two strategies
ReplaceGameInputs == {<<2, 2, 2>>}

\* the payoff matrix of the active game: a row for every history and a
\* column for every player, the value of row h and column p being 10 h + p
ReplaceMatrix(g) ==
    [h \in 1..g.total_histories |->
       [p \in 1..Len(g.players) |-> <<10 * h + p, 1>>]]

\* the root's actions are made equally likely while the game is CREATED
ReplaceAssignCommand ==
    /\ HasActiveGame
    /\ session.active_game.state = "CREATED"
    /\ LET labels == ScenarioLabels(session.active_game, 1)
       IN  ControllerAssignProbabilities(1, labels,
               [i \in 1..Len(labels) |-> <<1, Len(labels)>>])

\* calculate_utilities is commanded for the first game of the session only:
\* a game that replaces it never has its utilities calculated
FirstGameCalculateUtilities ==
    /\ session.active_game.obj = 1
    /\ ControllerCalculateUtilities

NextReplace ==
    \/ \E c \in ReplaceGameInputs : CreateGame(c[1], c[2], c[3])
    \/ ReplaceAssignCommand
    \/ FinalizeProbabilityAssignment
    \/ RegisterPayoffs(ReplaceMatrix(session.active_game))
    \/ ControllerGenerateHistories
    \/ FirstGameCalculateUtilities
    \/ IdentifyEquilibria

SpecReplace == Init /\ [][NextReplace]_vars

\* ------------------------------------------------------------------ claims
Built(g) == g.scenarios # <<>>

TerminalScenarios(g) ==
    {i \in 1..Len(g.scenarios) : g.scenarios[i].scenario_type = "final"}

AfterBuild == result.op = "build_tree"
AfterGenerate == result.op = "generate_histories" /\ result.ok

\* C1 (as amended): for every P >= 1, R >= 1 and 1 <= S <= 52 that the
\* complexity guard accepts, build_tree succeeds and yields exactly S^R
\* terminal scenarios, and generate_histories on that game returns exactly
\* S^R histories, each containing exactly R actions.
C1_TreeAndHistoryCounts ==
    /\ (/\ AfterBuild
        /\ validate_game_complexity(result.rounds, result.strategies)
        /\ result.strategies <= NumLetters)
       => /\ result.ok
          /\ Cardinality(TerminalScenarios(game))
               = Pow(result.strategies, result.rounds)
    /\ (result.op = "generate_histories" /\ Built(game))
       => /\ result.ok
          /\ Len(histories) = Pow(game.num_strategies, game.num_rounds)
          /\ \A h \in 1..Len(histories) :
               Len(histories[h].actions) = game.num_rounds

C1_Witness ==
    /\ AfterGenerate
    /\ game.num_rounds = 3 /\ game.num_strategies = 2
    /\ Cardinality(TerminalScenarios(game)) = 8
    /\ Len(histories) = 8

\* C1 as stated: every (P, R, S) the complexity guard accepts is built, with
\* S^R terminal scenarios.
C1_Original ==
    (AfterBuild /\ validate_game_complexity(result.rounds, result.strategies))
    => /\ result.ok
       /\ Cardinality(TerminalScenarios(game))
            = Pow(result.strategies, result.rounds)

\* C2: the closed-form counts calculate_total_scenarios(R, S) and
\* calculate_total_strategies(R, S) equal the numbers of scenarios and of
\* actions of the tree build_tree produces for the same (R, S).
C2_ClosedFormsMatchBuild ==
    (AfterBuild /\ result.ok)
    => /\ calculate_total_scenarios(result.rounds, result.strategies)
            = game.total_scenarios
       /\ calculate_total_strategies(result.rounds, result.strategies)
            = game.total_actions

HistoryProduct(h) == Product(probability[h.obj], h.actions, 1)

\* C7 as stated: in every reachable state each History's total_probability
\* is the product of the current probabilities of its actions.
C7_Original ==
    \A h \in 1..Len(histories) :
        histories[h].total_probability = HistoryProduct(histories[h])

\* C7 (as amended): when generate_histories returns, each History's
\* total_probability is the product of the current probabilities of its
\* actions; assign_probabilities and normalize_probabilities leave every
\* existing History (its total_probability included) as it was.
C7_ProductWhenGenerated ==
    [][/\ (result'.op = "generate_histories" /\ result'.ok)
          => \A h \in 1..Len(histories') :
               histories'[h].total_probability
                 = Product(probability'[histories'[h].obj], histories'[h].actions, 1)
       /\ (result'.op \in {"assign_probabilities", "normalize_probabilities"})
          => histories' = histories]_vars

\* a probability operation has left a generated history stale
C7_Witness ==
    /\ result.op \in {"assign_probabilities", "normalize_probabilities"}
    /\ result.ok
    /\ \E h \in 1..Len(histories) :
         /\ histories[h].obj = game.obj
         /\ histories[h].total_probability # HistoryProduct(histories[h])
         /\ HistoryProduct(histories[h]) # Zero

\* lexicographic order on sequences of action ids
RECURSIVE LexLess(_, _)
LexLess(a, b) ==
    IF b = <<>> THEN FALSE
    ELSE IF a = <<>> THEN TRUE
    ELSE IF Head(a) # Head(b) THEN Head(a) < Head(b)
    ELSE LexLess(Tail(a), Tail(b))

\* C8: generate_histories numbers the histories 1, 2, ..., N in emission
\* order and emits them in strictly increasing lexicographic order of their
\* action-id sequences (depth first, outgoing actions in ascending action_id).
C8_HistoryOrder ==
    AfterGenerate
    => /\ \A h \in 1..Len(histories) : histories[h].history_id = h
       /\ \A h \in 1..(Len(histories) - 1) :
            LexLess(histories[h].actions, histories[h + 1].actions)

C8_Witness ==
    /\ AfterGenerate
    /\ Len(histories) = 9
    /\ histories[4].actions = <<5, 6>>
    /\ histories[4].history_id = 4

\* C9: in a Game returned by build_tree(P, R, S) a scenario is terminal iff
\* its depth is R, every decision scenario has exactly S outgoing actions and
\* every terminal scenario has none.
C9_TerminalIffDepth ==
    Built(game)
    => \A i \in 1..Len(game.scenarios) :
         LET sc == game.scenarios[i]
         IN  /\ (sc.scenario_type = "final") <=> (sc.depth = game.num_rounds)
             /\ sc.scenario_type # "final"
                  => /\ Len(sc.outgoing_actions) = game.num_strategies
                     /\ Len(DictGet(game.adjacency, sc.scenario_id, <<>>))
                          = game.num_strategies
             /\ sc.scenario_type = "final"
                  => /\ sc.outgoing_actions = <<>>
                     /\ DictGet(game.adjacency, sc.scenario_id, <<>>) = <<>>

C9_Witness ==
    /\ AfterBuild /\ result.ok
    /\ game.num_rounds = 2 /\ game.num_strategies = 3
    /\ Cardinality(TerminalScenarios(game)) = 9
    /\ Len(game.scenarios[2].outgoing_actions) = 3

\* the scenarios of the subtree rooted at scenario id d
RECURSIVE Subtree(_, _)
Subtree(g, d) ==
    LET ch == g.scenarios[d + 1].children
    IN  {d} \cup UNION {Subtree(g, ch[k]) : k \in 1..Len(ch)}

\* the actions leaving a scenario of the subtree rooted at d
ActionsBelow(g, d) ==
    {a \in 1..Len(g.actions) : g.actions[a].origin_scenario \in Subtree(g, d)}

\* C10: action ids are 1..N in one global depth-first pre-order (the actions
\* below an action's destination are the ids right after it, siblings are in
\* scenario-id order); the i-th root child by scenario id uses the i-th
\* letter, its root edge is '<letter>1' and the j-th following action of
\* that subtree is '<letter>j+1'; hence ids and labels are pairwise distinct.
C10_ActionIdsAndLabels ==
    Built(game)
    => LET acts == game.actions
           N == Len(acts)
           rootKids == SortIds(game.scenarios[1].children)
       IN  /\ \A a \in 1..N : acts[a].action_id = a
           /\ \A a \in 1..N :
                ActionsBelow(game, acts[a].destination_scenario)
                  = (a + 1)..(a + Cardinality(
                        ActionsBelow(game, acts[a].destination_scenario)))
           /\ \A a, b \in 1..N :
                (acts[a].origin_scenario = acts[b].origin_scenario /\ a < b)
                  => acts[a].destination_scenario < acts[b].destination_scenario
           /\ \A i \in 1..Len(rootKids) :
                \E a \in 1..N :
                  /\ acts[a].origin_scenario = 0
                  /\ acts[a].destination_scenario = rootKids[i]
                  /\ acts[a].label = <<Letters[i], "1">>
                  /\ \A b \in ActionsBelow(game, rootKids[i]) :
                       acts[b].label = <<Letters[i]>> \o Str(b - a + 1)
           /\ \A a, b \in 1..N :
                a # b => /\ acts[a].action_id # acts[b].action_id
                         /\ acts[a].label # acts[b].label

C10_Witness ==
    /\ AfterBuild /\ result.ok
    /\ game.num_rounds = 3 /\ game.num_strategies = 2
    /\ game.actions[5].label = <<"a", "5">>
    /\ game.actions[5].origin_scenario = 1
    /\ game.actions[8].label = <<"b", "1">>
    /\ game.actions[14].label = <<"b", "7">>

AfterFind == result.op = "find_spe_profiles" /\ result.ok
AfterCalculate == result.op = "calculate_utilities" /\ result.ok

\* the continuation utility of an action for the active player of the
\* scenario it leaves, as the finder computes it from the current state
ContinuationUtility(a) ==
    calculate_continuation_utility(a,
        get_active_player_for_scenario(
            game.scenarios[game.actions[a].origin_scenario + 1], game, game.players),
        map_actions_to_histories(histories),
        build_history_utilities(histories, payoffs, game.players))

\* the action is within the tolerance of the best of its siblings
IsMaximiser(a) ==
    LET out == game.scenarios[game.actions[a].origin_scenario + 1].outgoing_actions
    IN  \A j \in 1..Len(out) :
          RatLt(RatSub(ContinuationUtility(out[j]), ContinuationUtility(a)),
                Tolerance)

\* C3: for every profile find_spe_profiles returns and every strategy
\* (scenario, action) in it, the action leaves that scenario and its
\* continuation utility for the scenario's active player is less than 1e-6
\* below the maximum continuation utility over the scenario's outgoing actions.
C3_ChosenActionsAreMaximisers ==
    AfterFind
    => \A k \in 1..Len(spe_profiles) :
         \A i \in 1..Len(spe_profiles[k].strategies) :
           LET strategy == spe_profiles[k].strategies[i]
               out == game.scenarios[strategy.from_scenario + 1].outgoing_actions
               utils == {ContinuationUtility(out[j]) : j \in 1..Len(out)}
               best == CHOOSE u \in utils : \A v \in utils : RatLeq(v, u)
           IN  /\ game.actions[strategy.action].origin_scenario
                    = strategy.from_scenario
               /\ RatLt(RatAbs(RatSub(ContinuationUtility(strategy.action), best)),
                        Tolerance)

\* a profile whose every scenario had an action that was not chosen: one
\* clearly worse, and one only a step of Delta worse that was kept out of
\* this profile but is within the tolerance
C3_Witness ==
    /\ AfterFind
    /\ game.num_rounds = 2 /\ game.num_strategies = 3
    /\ \E k \in 1..Len(spe_profiles) :
         \A i \in 1..Len(spe_profiles[k].strategies) :
           LET strategy == spe_profiles[k].strategies[i]
               out == game.scenarios[strategy.from_scenario + 1].outgoing_actions
           IN  /\ \E j \in 1..Len(out) :
                    RatLt(RatAdd(ContinuationUtility(out[j]), Tolerance),
                          ContinuationUtility(strategy.action))
               /\ i = 2 => \E j \in 1..Len(out) :
                    /\ out[j] # strategy.action
                    /\ ContinuationUtility(out[j])
                         # ContinuationUtility(strategy.action)
                    /\ IsMaximiser(out[j])

\* the action sequences of the root-to-terminal paths below scenario id d
RECURSIVE PathsFrom(_, _)
PathsFrom(g, d) ==
    LET out == g.scenarios[d + 1].outgoing_actions
    IN  IF out = <<>> THEN {<<>>}
        ELSE UNION {{<<out[j]>> \o rest :
                       rest \in PathsFrom(g, g.actions[out[j]].destination_scenario)} :
                    j \in 1..Len(out)}

ProfilePath(profile) ==
    [i \in 1..Len(profile.strategies) |-> profile.strategies[i].action]

\* C4: find_spe_profiles returns, exactly once each, every root-to-terminal
\* path (one strategy per depth 0..R-1, each action leaving its strategy's
\* scenario and leading to the scenario of the next strategy, the last one to
\* a terminal scenario) in which every chosen action is within the tolerance
\* of the maximum continuation utility at its scenario, and nothing else.
C4_AllTiedPathsOnce ==
    AfterFind
    => /\ \A k \in 1..Len(spe_profiles) :
            LET strategies == spe_profiles[k].strategies
            IN  /\ Len(strategies) = game.num_rounds
                /\ \A i \in 1..Len(strategies) :
                     /\ game.scenarios[strategies[i].from_scenario + 1].depth = i - 1
                     /\ game.actions[strategies[i].action].origin_scenario
                          = strategies[i].from_scenario
                     /\ i < Len(strategies)
                          => game.actions[strategies[i].action].destination_scenario
                               = strategies[i + 1].from_scenario
                     /\ i = Len(strategies)
                          => game.scenarios[
                               game.actions[strategies[i].action].destination_scenario
                               + 1].scenario_type = "final"
       /\ {ProfilePath(spe_profiles[k]) : k \in 1..Len(spe_profiles)}
            = {path \in PathsFrom(game, game.root) :
                 \A i \in 1..Len(path) : IsMaximiser(path[i])}
       /\ \A j, k \in 1..Len(spe_profiles) :
            j # k => ProfilePath(spe_profiles[j]) # ProfilePath(spe_profiles[k])

\* three rounds, ties at some scenarios but not at all: several profiles are
\* returned, fewer than there are paths
C4_Witness ==
    /\ AfterFind
    /\ game.num_rounds = 3 /\ game.num_strategies = 2
    /\ Len(spe_profiles) = 4
    /\ \E a \in 1..Len(game.actions) : ~IsMaximiser(a)
    /\ \E j, k \in 1..Len(spe_profiles) :
         /\ spe_profiles[j].strategies[1].action # spe_profiles[k].strategies[1].action
    /\ \E j, k \in 1..Len(spe_profiles) :
         /\ spe_profiles[j].strategies[1].action = spe_profiles[k].strategies[1].action
         /\ spe_profiles[j].strategies[3].action # spe_profiles[k].strategies[3].action

\* the payoff value of a player at a history, 0 when there is no payoff
PayoffValue(player, history_id) ==
    DictGet(payoff_map(payoffs), <<player, history_id>>, Zero)

\* the mean, over the histories containing the action, of the player's
\* expected utility (payoff value times the history's total_probability)
MeanExpectedUtility(a, player) ==
    LET through == SelectSeq(histories,
                             LAMBDA h : \E i \in 1..Len(h.actions) : h.actions[i] = a)
    IN  IF through = <<>> THEN Zero
        ELSE RatDiv(Sum([k \in 1..Len(through) |->
                           RatMul(PayoffValue(player, through[k].history_id),
                                  through[k].total_probability)], 1),
                    <<Len(through), 1>>)

\* C5 as stated: the continuation utility the finder computes for an action
\* and the active player is the mean of the player's expected utilities over
\* the histories containing the action, whatever the action probabilities.
C5_ContinuationIsMeanExpectedUtility ==
    AfterFind
    => \A a \in 1..Len(game.actions) :
         ContinuationUtility(a)
           = MeanExpectedUtility(a,
               get_active_player_for_scenario(
                 game.scenarios[game.actions[a].origin_scenario + 1],
                 game, game.players))

\* C6: calculate_utilities returns a matrix with one row per history and one
\* column per player of the payoffs (in ascending player id; these are all
\* the game's players when every player has a payoff), and for every payoff
\* the cell of its history and player is payoff.value times the
\* total_probability of that history.
C6_UtilityMatrix ==
    AfterCalculate
    => LET players == payoff_players(payoffs)
       IN  /\ Len(utility_matrix) = Len(histories)
           /\ \A h \in 1..Len(histories) :
                Len(utility_matrix[h]) = Len(players)
           /\ \A i \in 1..(Len(players) - 1) : players[i] < players[i + 1]
           /\ Len(payoffs) = Len(histories) * Len(game.players)
                => players = game.players
           /\ \A k \in 1..Len(payoffs) :
                \A h \in 1..Len(histories), p \in 1..Len(players) :
                  (histories[h].history_id = payoffs[k].history
                     /\ players[p] = payoffs[k].player)
                  => utility_matrix[h][p]
                       = RatMul(payoffs[k].value, histories[h].total_probability)

C6_Witness ==
    /\ AfterCalculate
    /\ Len(utility_matrix) = 4
    /\ Len(utility_matrix[1]) = 2
    /\ Len(payoffs) = 8
    /\ payoffs[8].value = <<2, 1>>
    /\ histories[4].total_probability = <<1, 4>>
    /\ utility_matrix[4][2] = <<1, 2>>
    /\ utility_matrix[1] = <<<<3, 4>>, <<1, 4>>>>

\* ---------------------------------------------------------------- C11, C12
\* C11: validate_probabilities(scenario) returns true when the scenario has no
\* outgoing actions or when the sum of its outgoing actions' assigned
\* probabilities is within 0.001 of 1.0, and returns false otherwise.
C11_ValidateReturnsBool ==
    result.op = "validate_probabilities"
    => LET outgoing == game.scenarios[result.scenario].outgoing_actions
           total == normalize_total(probabilities, probability[game.obj], outgoing)
           within == \/ outgoing = <<>>
                     \/ RatLeq(RatAbs(RatSub(One, total)), <<1, 1000>>)
       IN  result.returned = IF within THEN "True" ELSE "False"

\* the unit roundoff of the float format
Ulp == <<1, Pow(2, FloatBits)>>

NormalizeStep == result'.op = "normalize_probabilities" /\ result'.ok

\* the actions normalize_probabilities was given in this step
Normalized == game.scenarios[result'.scenario].outgoing_actions

\* |a - b| <= bound
Within(a, b, bound) == RatLeq(RatAbs(RatSub(a, b)), bound)

\* C12 as stated: a successful normalize_probabilities replaces each
\* probability by its value divided by the sum, the results sum to 1, and
\* applying it again to the normalized actions changes no value.
C12_Original ==
    [][NormalizeStep
       => LET old(a) == get_probability(probabilities, probability[game.obj], a)
              total == normalize_total(probabilities, probability[game.obj],
                                       Normalized)
              new == probability'[game.obj]
          IN  /\ \A i \in 1..Len(Normalized) :
                    new[Normalized[i]] = FloatDiv(old(Normalized[i]), total)
              /\ normalize_total(probabilities', new, Normalized) = One
              /\ result'.again => new = probability[game.obj]]_vars

\* C12 (as amended): a successful normalize_probabilities of n distinct
\* actions replaces each probability (in the assigner and in the Action) by
\* the float quotient of its value by the float sum, which is within
\* 2n roundoff units of value / sum; the results sum to 1 within 2n roundoff
\* units; applying it again changes each value by at most 4n roundoff units.
C12_NormalizeUpToRounding ==
    [][NormalizeStep
       => LET old(a) == get_probability(probabilities, probability[game.obj], a)
              n == Len(Normalized)
              exact == Sum([i \in 1..n |-> old(Normalized[i])], 1)
              new == probability'[game.obj]
              bound(k) == RatMul(<<k * n, 1>>, Ulp)
          IN  /\ \A i \in 1..n :
                    /\ probabilities'[Normalized[i]] = new[Normalized[i]]
                    /\ Within(new[Normalized[i]],
                              RatDiv(old(Normalized[i]), exact), bound(2))
              /\ Within(Sum([i \in 1..n |-> new[Normalized[i]]], 1), One, bound(2))
              /\ \A a \in 1..Len(new) :
                    (\A i \in 1..n : Normalized[i] # a)
                    => new[a] = probability[game.obj][a]
              /\ result'.again
                 => \A i \in 1..n :
                      Within(new[Normalized[i]],
                             probability[game.obj][Normalized[i]], bound(4))]_vars

\* a second normalisation of the same actions has changed a value
C12_Witness ==
    /\ result.op = "normalize_probabilities" /\ result.ok
    /\ result.again /\ result.changed
\* ----------------------------------------------------------- C13, C14, C16
\* the forward transitions of a game's state
AllowedTransitions ==
    {<<"CREATED", "RUNNING">>, <<"RUNNING", "COMPLETED">>,
     <<"CREATED", "DELETED">>, <<"RUNNING", "DELETED">>,
     <<"COMPLETED", "DELETED">>}

\* C13: Game.set_state accepts exactly the transitions CREATED -> RUNNING,
\* RUNNING -> COMPLETED and CREATED, RUNNING or COMPLETED -> DELETED; it
\* then stores the new state; every other request raises and leaves the
\* game as it was.
C13_SetStateTransitions ==
    [][result'.op = "set_state" =>
         LET old == session.active_game
             accepted == <<old.state, result'.new_state>> \in AllowedTransitions
         IN  /\ result'.ok <=> accepted
             /\ session'.active_game =
                  IF accepted THEN [old EXCEPT !.state = result'.new_state] ELSE old]_vars

\* set_state("RUNNING") was rejected on a COMPLETED game
C13_Witness ==
    /\ result.op = "set_state"
    /\ ~result.ok
    /\ result.new_state = "RUNNING"
    /\ session.active_game.state = "COMPLETED"

\* C14: whatever commands the controller is given, the state of a game only
\* changes along CREATED -> RUNNING -> COMPLETED or to DELETED.
C14_StateOnlyForward ==
    [][(/\ session.active_game.obj # 0
        /\ session'.active_game.obj = session.active_game.obj
        /\ session'.active_game.state # session.active_game.state)
       => <<session.active_game.state, session'.active_game.state>>
            \in AllowedTransitions]_vars

\* C16: a create_game that fails leaves no Game of the failed call behind:
\* TreeBuilder.get_tree() returns a Game that existed before the call (or
\* none), and the session's active game is unchanged.
C16_FailedBuildNotObservable ==
    [][(result'.op = "create_game" /\ ~result'.ok) =>
         /\ game'.obj <= Len(probability)
         /\ session'.active_game = session.active_game]_vars

\* ----------------------------------------------------------------- C15, C17
RECURSIVE TreeSize(_, _)
\* the scenarios of a tree of R rounds and S strategies: 1 + S + ... + S^R
TreeSize(rounds, strategies) ==
    IF rounds = 0 THEN 1
    ELSE Pow(strategies, rounds) + TreeSize(rounds - 1, strategies)

\* C15: every (R, S) the complexity guard of build_tree lets through has a
\* tree of at most max_scenarios scenarios and max_strategies actions, and
\* a Game that build_tree returned has no more than that.
C15_AcceptedTreesWithinCeiling ==
    /\ (result.op = "validate_game_complexity" /\ result.ok) =>
         /\ TreeSize(result.rounds, result.strategies) <= max_scenarios
         /\ TreeSize(result.rounds, result.strategies) - 1 <= max_strategies
    /\ (result.op = "build_tree" /\ result.ok) =>
         /\ Len(game.scenarios) <= max_scenarios
         /\ Len(game.actions) <= max_strategies

\* C17: build_tree with players, rounds or strategies <= 0 raises and
\* returns no Game.
C17_NonPositiveRejected ==
    (/\ result.op = "build_tree"
     /\ result.players <= 0 \/ result.rounds <= 0 \/ result.strategies <= 0)
    => ~result.ok

\* ----------------------------------------------------------------- C18, C19
\* some action leads to a scenario on the path from the root to its origin
HasCycle(g) ==
    \E a \in 1..Len(g.actions) :
      /\ g.actions[a].destination_scenario # NoScenario
      /\ g.actions[a].destination_scenario \in PathTo(g, g.actions[a].origin_scenario)

RECURSIVE ReachSet(_, _)
\* the scenarios reachable from those of S along the actions
ReachSet(g, S) ==
    LET next == S \cup {g.actions[a].destination_scenario :
                          a \in {x \in 1..Len(g.actions) :
                                   /\ g.actions[x].origin_scenario \in S
                                   /\ g.actions[x].destination_scenario # NoScenario}}
    IN  IF next = S THEN S ELSE ReachSet(g, next)

\* some action reachable from the root has no destination scenario
ReachableWithoutDestination(g) ==
    \E a \in 1..Len(g.actions) :
      /\ g.actions[a].origin_scenario \in ReachSet(g, {g.root})
      /\ g.actions[a].destination_scenario = NoScenario

\* the action paths of the histories a tree has when the actions in `cut`
\* are left out
RECURSIVE PathsAvoiding(_, _, _)
PathsAvoiding(g, s, cut) ==
    LET outgoing == {a \in 1..Len(g.actions) : g.actions[a].origin_scenario = s}
    IN  IF outgoing = {} THEN {<<>>}
        ELSE UNION {{<<a>> \o p : p \in PathsAvoiding(g, g.actions[a].destination_scenario, cut)} :
                      a \in outgoing \ cut}

\* the actions that close a cycle
CycleActions(g) ==
    {a \in 1..Len(g.actions) :
       /\ g.actions[a].destination_scenario # NoScenario
       /\ g.actions[a].destination_scenario \in PathTo(g, g.actions[a].origin_scenario)}

\* C18: generate_histories on a tree with a cycle (an action whose
\* destination is an ancestor of its origin) does not raise, and returns the
\* histories of the branches without the cyclic action.
C18_CycleIsSkipped ==
    (/\ result.op = "generate_histories"
     /\ generate_histories_ok(game)
     /\ HasCycle(game))
    => /\ result.ok
       /\ {histories[h].actions : h \in 1..Len(histories)}
            = PathsAvoiding(game, game.root, CycleActions(game))

\* C19: generate_histories raises, and leaves no histories, when the tree
\* has no root, no actions, or an action reachable from the root without a
\* destination scenario.
C19_BadTreeRaises ==
    (/\ result.op = "generate_histories"
     /\ \/ game.root = NoScenario
        \/ game.actions = <<>>
        \/ ReachableWithoutDestination(game))
    => (~result.ok /\ histories = <<>>)

\* ----------------------------------------------------------------------- C20
\* the data calculate_utilities is claimed to reject: no histories, no
\* payoffs, a payoff of an unknown history, or a (player, history) pair
\* without payoff
IncompleteUtilityData(hs, pfs, players) ==
    \/ hs = <<>>
    \/ pfs = <<>>
    \/ \E i \in 1..Len(pfs) :
         pfs[i].history \notin {hs[h].history_id : h \in 1..Len(hs)}
    \/ \E p \in 1..Len(players), h \in 1..Len(hs) :
         \A i \in 1..Len(pfs) :
           ~(pfs[i].player = players[p] /\ pfs[i].history = hs[h].history_id)

\* C20: calculate_utilities fails, and leaves the stored utility matrix and
\* every Payoff.expected_utility as they were, when histories or payoffs
\* are empty, a payoff refers to an unknown history or some (player,
\* history) pair has no payoff.
C20_IncompleteDataFails ==
    [][(/\ result'.op = "calculate_utilities"
        /\ IncompleteUtilityData(histories, payoffs, game.players))
       => (~result'.ok /\ UNCHANGED <<utility_matrix, payoffs>>)]_vars

\* ----------------------------------------------------------------------- C22
\* the example: two players, two rounds, two strategies, probability 1/2 on
\* every action, payoffs (3, 1), (0, 0), (0, 0), (2, 2) on histories 1..4,
\* player 1 active in round 1 and player 2 in round 2
C22_Example ==
    /\ Len(game.players) = 2 /\ game.num_rounds = 2 /\ game.num_strategies = 2
    /\ \A a \in 1..Len(game.actions) : probability[game.obj][a] = Half
    /\ Len(histories) = 4
    /\ Len(payoffs) = 8
    /\ \A h \in 1..4, p \in 1..2 :
         PayoffValue(p, h) = <<<<<<3, 1>>, <<1, 1>>>>, <<Zero, Zero>>,
                               <<Zero, Zero>>, <<<<2, 1>>, <<2, 1>>>>>>[h][p]
    /\ get_active_player_for_scenario(game.scenarios[1], game, game.players) = 1
    /\ get_active_player_for_scenario(game.scenarios[2], game, game.players) = 2

\* C22: in the example find_spe_profiles returns exactly one profile, the
\* actions of history 1 (a1 at the root, then a2, ending at Z1); a1 has the
\* higher continuation utility for player 1 at the root and a2 the higher
\* one for player 2 at X1.
C22_ExampleSelectsHistoryOne ==
    (result.op = "find_spe_profiles" /\ C22_Example)
    => /\ result.ok
       /\ Len(spe_profiles) = 1
       /\ ProfilePath(spe_profiles[1]) = histories[1].actions
       /\ ProfilePath(spe_profiles[1]) = <<1, 2>>
       /\ game.actions[1].label = <<"a", "1">>
       /\ game.actions[2].label = <<"a", "2">>
       /\ game.scenarios[game.actions[2].destination_scenario + 1].label = <<"Z", "1">>
       /\ RatLt(ContinuationUtility(4), ContinuationUtility(1))
       /\ RatLt(ContinuationUtility(3), ContinuationUtility(2))

C22_Witness ==
    /\ AfterFind
    /\ C22_Example
    /\ Len(spe_profiles) = 1


\* ----------------------------------------------------------------------- C23
\* C23: for every returned profile, final_payments and utility_vector give
\* for each player the payoff value of that player at the history whose
\* action sequence is the profile's path, in games of any number of rounds
\* (one round included).
C23_FinalPaymentsAreThePathPayoffs ==
    AfterFind
    => \A k \in 1..Len(spe_profiles) :
         \A h \in 1..Len(histories) :
           histories[h].actions = ProfilePath(spe_profiles[k])
           => \A i \in 1..Len(game.players) :
                /\ spe_profiles[k].final_payments[game.players[i]]
                     = PayoffValue(game.players[i], histories[h].history_id)
                /\ spe_profiles[k].utility_vector[i]
                     = PayoffValue(game.players[i], histories[h].history_id)

\* ----------------------------------------------------------------------- C21
\* the last command reached the payoff-count check of
\* _assign_histories_to_payoffs with histories and payoffs present
ReachedPayoffCountCheck ==
    /\ result.op \in {"GameController.generate_histories",
                      "GameController.calculate_utilities"}
    /\ result.rejected \notin {"no game", "state", "missing"}
    /\ session.history_list # <<>>
    /\ session.payoffs # <<>>

\* C21: the payoff-count check before the utility computation passes exactly
\* when the number of payoffs is the number of histories times the number of
\* players of the game, whatever the player order, and rejects otherwise.
C21_CountCheckIsHistoriesTimesPlayers ==
    ReachedPayoffCountCheck
    => (result.rejected # "payoffs"
          <=> Len(session.payoffs)
                = Len(session.history_list) * Len(session.active_game.players))

\* ----------------------------------------------------------------------- C24
\* the player the claim names for a scenario of depth d of the active game
ExpectedActivePlayer(d) ==
    LET g == session.active_game
    IN  IF \E i \in 1..Len(g.rounds) :
             g.rounds[i].round_number = d + 1 /\ g.rounds[i].active_player # 0
        THEN g.rounds[d + 1].active_player
        ELSE g.players[(d % Len(g.players)) + 1]

\* C24: the player of every step of a profile returned by identify_equilibria
\* is the active_player of the round numbered depth + 1 when that round has
\* one, and players[depth mod |players|] otherwise; after configure_order(ids)
\* round i has the active player ids[(i - 1) mod |ids|].
C24_ActivePlayerOfScenario ==
    /\ (result.op = "identify_equilibria" /\ result.ok)
       => \A k \in 1..Len(spe_profiles) :
            \A i \in 1..Len(spe_profiles[k].steps) :
              spe_profiles[k].steps[i].player
                = ExpectedActivePlayer(spe_profiles[k].steps[i].round_num - 1)
    /\ (result.op = "configure_order" /\ result.ok)
       => \A i \in 1..Len(session.active_game.rounds) :
            session.active_game.rounds[i].active_player
              = session.player_order[((i - 1) % Len(session.player_order)) + 1]

C24_Witness ==
    /\ result.op = "identify_equilibria" /\ result.ok
    /\ session.player_order = <<2, 1>>
    /\ Len(session.active_game.rounds) = 2
    /\ \E k \in 1..Len(spe_profiles) :
         /\ spe_profiles[k].steps[1].player = 2
         /\ spe_profiles[k].steps[2].player = 1

\* ----------------------------------------------------------------------- C25
\* C25: a probability command that fails (a count mismatch, a value outside
\* [0, 1], values that fail the sum-to-1 validation of the controller's
\* assign_probabilities) leaves every Action.probability as it was.
C25_FailedAssignmentChangesNothing ==
    [][(result'.op = "GameController.assign_probabilities" /\ ~result'.ok)
         => probability' = probability]_vars

\* ----------------------------------------------------------------------- C27
\* C27: after finalize_utilities_calculation succeeds the state of the active
\* game is COMPLETED.
C27_FinalizeCompletesGame ==
    (result.op = "finalize_utilities_calculation" /\ result.ok)
    => session.active_game.state = "COMPLETED"

\* ----------------------------------------------------------------------- C28
\* the data a rejected command must leave alone: the game (its state,
\* histories and payoffs included), the session and the components' lists
StageData == <<game, session, histories, utility_matrix, spe_profiles,
               probability, probabilities, payoffs>>

\* C28: generate_histories and calculate_utilities fail unless the game is
\* RUNNING, configure_order fails unless it is CREATED, and a call rejected
\* for the state leaves the game state, the histories, the payoffs and the
\* session data unchanged.
C28_StageGating ==
    [][/\ (/\ result'.op \in {"GameController.generate_histories",
                              "GameController.calculate_utilities"}
           /\ HasActiveGame
           /\ session.active_game.state # "RUNNING")
          => (~result'.ok /\ UNCHANGED StageData)
       /\ (/\ result'.op = "configure_order"
           /\ HasActiveGame
           /\ session.active_game.state # "CREATED")
          => (~result'.ok /\ UNCHANGED StageData)]_vars

\* calculate_utilities was rejected for the state of a completed game that
\* has histories and payoffs
C28_Witness ==
    /\ result.op = "GameController.calculate_utilities"
    /\ result.rejected = "state"
    /\ session.active_game.state = "COMPLETED"
    /\ session.history_list # <<>>
    /\ session.active_game.payoffs # <<>>

\* ----------------------------------------------------------------------- C29
\* the matrices given to register_payoffs hold 10 h + p at row h, column p
RowOf(payoff) == payoff.value[1] \div 10
ColumnOf(payoff) == payoff.value[1] % 10

\* C29: after register_payoffs(matrix) and a successful generate_histories,
\* with or without a configure_order in between, the payoff of row h and
\* column p belongs to the player with id p and to the generated history
\* with id h.
C29_PayoffKeepsPlayerAndHistory ==
    (result.op = "GameController.generate_histories" /\ result.ok)
    => \A k \in 1..Len(session.payoffs) :
         LET payoff == session.payoffs[k]
         IN  /\ payoff.player = ColumnOf(payoff)
             /\ payoff.history = RowOf(payoff)
             /\ \E h \in 1..Len(session.history_list) :
                  payoff.history_object = session.history_list[h]

\* C26: identify_equilibria succeeds only if calculate_utilities succeeded
\* before for the active game; where the utilities of the active game were
\* not calculated, also after create_game replaced an earlier game, it fails.
\* In SpecReplace calculate_utilities is commanded for the first game only,
\* so the utilities of the active game have been calculated exactly when it
\* is the first game and the session holds a utility matrix.
UtilitiesCalculatedForActiveGame ==
    /\ session.active_game.obj = 1
    /\ session.utility_matrix # <<>>

C26_EquilibriaNeedUtilitiesOfActiveGame ==
    (result.op = "identify_equilibria" /\ result.ok)
    => UtilitiesCalculatedForActiveGame

\* C30: after a successful create_game the session's history list, payoffs,
\* utility matrix, equilibria and equilibrium profiles and the cache of the
\* ProbabilityAssigner hold nothing of an earlier game
C30_CreateGameLeavesNoEarlierData ==
    (result.op = "create_game" /\ result.ok)
    => /\ session.history_list = <<>>
       /\ session.payoffs = <<>>
       /\ session.utility_matrix = <<>>
       /\ session.equilibria = <<>>
       /\ session.equilibrium_profiles = <<>>
       /\ probabilities = EmptyDict

====
